---- MODULE Spec2Model ----
(***************************************************************************)
(* Model of lightfeed/extractor: the schema-driven recursive sanitizer     *)
(* (safeSanitizedParser), the schema transformer (transformSchemaForLLM),  *)
(* the URL repair (fixUrlEscapeSequences) and the zod validation they rest *)
(* on (src/src/utils/schemaUtils.ts); extractWithLLM                       *)
(* (src/src/extractors.ts); htmlToMarkdown (src/src/converters.ts); and    *)
(* the lifecycle of the Browser class (src/src/browser.ts).                *)
(***************************************************************************)
EXTENDS Integers, Sequences, FiniteSets, TLC

VARIABLES
    schema,       \* the caller's schema
    rawObject,    \* the raw value handed to the sanitizer or a parser
    pc,           \* the step of the run
    sanitized,    \* safeSanitizedParser(schema, rawObject)
    resanitized,  \* safeSanitizedParser(schema, sanitized)
    llmSchema,    \* transformSchemaForLLM(schema)
    llmParsed,    \* llmSchema.parse(rawObject)
    response,     \* what structuredOutputLLM.invoke settles with
    extracted,    \* data: the value handed to fixUrlEscapeSequences
    fixedData,    \* fixUrlEscapeSequences(extracted, schema)
    outcome,      \* how extractWithLLM ends: the data it returns or its error
    request,      \* the arguments of extract or of truncateContent
    converted,    \* extract's local `content` after the conversion
    truncated,    \* what truncateContent returns
    prompt,       \* the prompt handed to the language model
    extractResult,\* what extract returns or throws
    html,         \* the document handed to htmlToMarkdown
    options,      \* its HTMLExtractionOptions
    sourceUrl,    \* its sourceUrl argument
    markdown,     \* what htmlToMarkdown returns
    browser,      \* Browser.browser: the provider's handle, or null
    calls,        \* the calls made on the Browser, pending or settled
    providerCalls,\* how often each provider method has been invoked
    settled,      \* the calls in the order in which they settled
    pages,        \* the pages the provider's browsers have opened
    loading,      \* the frame of each loadPage call: where it stands
    heap,         \* the objects behind the schemas: _def objects and arrays
    original,     \* the heap as it was before transformSchemaForLLM ran
    refs          \* the references held: the schema, a sharer, the result

sanitizerVars == <<schema, rawObject, sanitized, resanitized, llmSchema, llmParsed>>
promptVars == <<request, converted, truncated, prompt, extractResult>>
extractorVars == <<response, extracted, fixedData, outcome, promptVars>>
converterVars == <<html, options, sourceUrl, markdown>>
browserVars == <<browser, calls, providerCalls, settled, pages, loading>>
heapVars == <<heap, original, refs>>
vars == <<pc, sanitizerVars, extractorVars, converterVars, browserVars, heapVars>>

(***************************************************************************)
(* Bounds of the model.                                                    *)
(***************************************************************************)
\* Nesting depth of the schemas drawn in Init (wrappers around a primitive).
MaxDepth == 3
\* Longest array drawn in Init.
MaxLen == 2
\* Nesting depth of the described schemas drawn for the schema transformer.
TransformDepth == 2

(***************************************************************************)
(* JavaScript values.  null and undefined are distinct values; an object   *)
(* is a function from the keys it owns to values (a key may be owned with  *)
(* the value undefined, which `key in obj` still reports).                 *)
(***************************************************************************)
Null == [t |-> "null"]
Undefined == [t |-> "undefined"]
Str(s) == [t |-> "string", s |-> s]
Num(n) == [t |-> "number", n |-> n]
Arr(items) == [t |-> "array", items |-> items]
Obj(fields) == [t |-> "object", fields |-> fields]
EmptyFields == [k \in {} |-> Null]

\* The outcome of a call that throws instead of returning.
Throw == [t |-> "throw"]

\* result[key] = value
Put(fields, key, value) ==
    [k \in (DOMAIN fields) \cup {key} |-> IF k = key THEN value ELSE fields[k]]

(***************************************************************************)
(* Zod schemas: the _def of each node kind.                                *)
(***************************************************************************)
NoDescription == "undefined"

ZString(checks, description) ==
    [typeName |-> "ZodString", checks |-> checks, description |-> description]
ZNumber(description) ==
    [typeName |-> "ZodNumber", description |-> description]
ZObject(shape, description) ==
    [typeName |-> "ZodObject", shape |-> shape, description |-> description]
ZArray(type, description) ==
    [typeName |-> "ZodArray", type |-> type, description |-> description]
ZOptional(innerType, description) ==
    [typeName |-> "ZodOptional", innerType |-> innerType, description |-> description]
ZNullable(innerType, description) ==
    [typeName |-> "ZodNullable", innerType |-> innerType, description |-> description]

UrlCheck == [kind |-> "url"]
MinCheck(n) == [kind |-> "min", value |-> n]

\* A string is the sequence of its characters; a scheme (with its host, if
\* any) is written as one element, since nothing in the program looks inside.
PlainString == <<"x">>
UrlString == <<"http://a.co">>
EmptyString == <<>>

\* The beginnings with which `new URL(s)` succeeds; whatever follows the
\* scheme (parentheses and backslashes included) is accepted as the rest.
Schemes == {"http://a.co", "https://b.co", "https://www.amazon.com", "mailto:", "data:"}
IsWellFormedUrl(s) == s # <<>> /\ s[1] \in Schemes

isZodType(s, type) == s.typeName = type

isUrlSchema(s) ==
    /\ isZodType(s, "ZodString")
    /\ \E i \in DOMAIN s.checks : s.checks[i].kind = "url"

(***************************************************************************)
(* transformSchemaForLLM: rebuilds the tree, each node from a copy of its  *)
(* _def, with the url checks filtered out of the url string nodes.         *)
(***************************************************************************)
\* A filter that removes the min checks instead of the url checks.
RemovesMinChecks(check) == check.kind # "min"

\* originalDef.checks.filter((check) => check.kind !== "url")
NotUrlCheck(check) == check.kind # "url"

\* The url branch rebuilt from scratch as z.string(): the description is lost.
relaxUrlStringFresh(s) ==
    ZString(SelectSeq(s.checks, NotUrlCheck), NoDescription)

\* new z.ZodString({...originalDef, checks: filtered, typeName: ZodString})
relaxUrlString(s) ==
    [s EXCEPT !.checks = SelectSeq(s.checks, NotUrlCheck),
              !.typeName = "ZodString"]

RECURSIVE transformSchemaForLLM(_)
transformSchemaForLLM(s) ==
    IF isUrlSchema(s)
    THEN relaxUrlString(s)
    ELSE IF isZodType(s, "ZodObject")
    THEN [s EXCEPT !.shape = [i \in DOMAIN s.shape |->
                                 <<s.shape[i][1], transformSchemaForLLM(s.shape[i][2])>>],
                   !.typeName = "ZodObject"]
    ELSE IF isZodType(s, "ZodArray")
    THEN [s EXCEPT !.type = transformSchemaForLLM(s.type), !.typeName = "ZodArray"]
    ELSE IF isZodType(s, "ZodOptional")
    THEN [s EXCEPT !.innerType = transformSchemaForLLM(s.innerType),
                   !.typeName = "ZodOptional"]
    ELSE IF isZodType(s, "ZodNullable")
    THEN [s EXCEPT !.innerType = transformSchemaForLLM(s.innerType),
                   !.typeName = "ZodNullable"]
    ELSE s

\* The keys of Object.entries(shape) and the schema of one of them.
ShapeKeys(shape) == {shape[i][1] : i \in DOMAIN shape}
ShapeSchema(shape, key) == shape[CHOOSE i \in DOMAIN shape : shape[i][1] = key][2]

(***************************************************************************)
(* fixUrlEscapeSequences: undoes, in the url strings of the original       *)
(* schema, the backslash the markdown converter puts before a parenthesis. *)
(***************************************************************************)
Backslash == "\\"

\* A replace without the g flag: only the first match is replaced.
RECURSIVE replaceFirst(_, _)
replaceFirst(str, paren) ==
    IF Len(str) < 2 THEN str
    ELSE IF str[1] = Backslash /\ str[2] = paren
    THEN <<paren>> \o SubSeq(str, 3, Len(str))
    ELSE <<str[1]>> \o replaceFirst(Tail(str), paren)

\* str.replace(/\\\(/g, "(") for paren "(", str.replace(/\\\)/g, ")") for ")":
\* the matches are found left to right and do not overlap.
RECURSIVE replaceAll(_, _)
replaceAll(str, paren) ==
    IF Len(str) < 2 THEN str
    ELSE IF str[1] = Backslash /\ str[2] = paren
    THEN <<paren>> \o replaceAll(SubSeq(str, 3, Len(str)), paren)
    ELSE <<str[1]>> \o replaceAll(Tail(str), paren)

\* data.replace(/\\\(/g, "(").replace(/\\\)/g, ")")
unescapeParens(str) == replaceAll(replaceAll(str, "("), ")")

RECURSIVE fixUrlEscapeSequences(_, _)
fixUrlEscapeSequences(value, s) ==
    IF value = Null \/ value = Undefined THEN value
    ELSE IF isUrlSchema(s)
    THEN IF value.t = "string" THEN Str(unescapeParens(value.s)) ELSE value
    ELSE IF isZodType(s, "ZodObject") /\ value.t = "object"
    THEN Obj([key \in ShapeKeys(s.shape) |->
                 IF key \in DOMAIN value.fields
                 THEN fixUrlEscapeSequences(value.fields[key], ShapeSchema(s.shape, key))
                 ELSE Undefined])
    ELSE IF isZodType(s, "ZodArray") /\ value.t = "array"
    THEN Arr([i \in DOMAIN value.items |->
                 fixUrlEscapeSequences(value.items[i], s.type)])
    ELSE IF isZodType(s, "ZodOptional")
    THEN fixUrlEscapeSequences(value, s.innerType)
    ELSE IF isZodType(s, "ZodNullable")
    THEN fixUrlEscapeSequences(value, s.innerType)
    ELSE value

(***************************************************************************)
(* schema.parse(data) of zod 3: the parsed output, or Throw.               *)
(***************************************************************************)
CheckPasses(check, s) ==
    CASE check.kind = "url" -> IsWellFormedUrl(s)
      [] check.kind = "min" -> Len(s) >= check.value

RECURSIVE parse(_, _)
parse(s, data) ==
    CASE s.typeName = "ZodString" ->
            IF /\ data.t = "string"
               /\ \A i \in DOMAIN s.checks : CheckPasses(s.checks[i], data.s)
            THEN data ELSE Throw
      [] s.typeName = "ZodNumber" ->
            IF data.t = "number" THEN data ELSE Throw
      [] s.typeName = "ZodOptional" ->
            IF data = Undefined THEN Undefined ELSE parse(s.innerType, data)
      [] s.typeName = "ZodNullable" ->
            IF data = Null THEN Null ELSE parse(s.innerType, data)
      [] s.typeName = "ZodArray" ->
            IF data.t # "array" THEN Throw
            ELSE LET parsed == [i \in DOMAIN data.items |-> parse(s.type, data.items[i])]
                 IN  IF \E i \in DOMAIN parsed : parsed[i] = Throw
                     THEN Throw ELSE Arr(parsed)
      [] s.typeName = "ZodObject" ->
            IF data.t # "object" THEN Throw
            ELSE LET get(k) == IF k \in DOMAIN data.fields
                               THEN data.fields[k] ELSE Undefined
                     parsed == [k \in ShapeKeys(s.shape) |->
                                   parse(ShapeSchema(s.shape, k), get(k))]
                     \* unknown keys are stripped; a declared key is set when its
                     \* parsed value is defined or the input owns the key
                     kept == {k \in ShapeKeys(s.shape) :
                                 parsed[k] # Undefined \/ k \in DOMAIN data.fields}
                 IN  IF \E k \in ShapeKeys(s.shape) : parsed[k] = Throw
                     THEN Throw ELSE Obj([k \in kept |-> parsed[k]])

Validates(s, data) == parse(s, data) # Throw

(***************************************************************************)
(* safeSanitizedParser and its helpers.  The failure sentinel is the       *)
(* JavaScript value null.                                                  *)
(***************************************************************************)
RECURSIVE safeSanitizedParser(_, _)
RECURSIVE sanitizeObject(_, _)
RECURSIVE sanitizeProperties(_, _, _, _)
RECURSIVE sanitizeArray(_, _)
RECURSIVE sanitizeItems(_, _, _, _)
RECURSIVE sanitizeOptional(_, _)
RECURSIVE sanitizeNullable(_, _)

\* try { ... } catch { return null }
safeSanitizedParser(s, raw) ==
    LET returned ==
            IF raw = Null \/ raw = Undefined THEN parse(s, raw)
            ELSE IF isZodType(s, "ZodObject") THEN sanitizeObject(s, raw)
            ELSE IF isZodType(s, "ZodArray") THEN sanitizeArray(s, raw)
            ELSE IF isZodType(s, "ZodOptional") THEN sanitizeOptional(s, raw)
            ELSE IF isZodType(s, "ZodNullable") THEN sanitizeNullable(s, raw)
            ELSE parse(s, raw)
    IN  IF returned = Throw THEN Null ELSE returned

\* One iteration of the loop without the `key in rawObjectRecord` test: a
\* missing key is read as undefined.
sanitizePropertyNoInTest(key, propertySchema, raw, result) ==
    LET value == safeSanitizedParser(propertySchema,
                    IF key \in DOMAIN raw THEN raw[key] ELSE Undefined)
    IN  IF isZodType(propertySchema, "ZodOptional")
        THEN IF value # Null THEN Put(result, key, value) ELSE result
        ELSE IF isZodType(propertySchema, "ZodNullable")
        THEN IF value = Throw THEN Put(result, key, Null) ELSE Put(result, key, value)
        ELSE IF value = Null THEN Throw ELSE Put(result, key, value)

\* One iteration of the for loop of sanitizeObject: the result record after
\* the property, or Throw.
sanitizeProperty(key, propertySchema, raw, result) ==
    IF key \notin DOMAIN raw
    THEN result
    ELSE LET value == safeSanitizedParser(propertySchema, raw[key])
         IN  IF isZodType(propertySchema, "ZodOptional")
             THEN IF value # Null THEN Put(result, key, value) ELSE result
             ELSE IF isZodType(propertySchema, "ZodNullable")
             THEN \* the catch branch: safeSanitizedParser never throws
                  IF value = Throw THEN Put(result, key, Null) ELSE Put(result, key, value)
             ELSE IF value = Null THEN Throw ELSE Put(result, key, value)

\* The for loop of sanitizeObject from entry i of the shape on, in shape order.
sanitizeProperties(shape, i, raw, result) ==
    IF i > Len(shape) THEN result
    ELSE LET next == sanitizeProperty(shape[i][1], shape[i][2], raw, result)
         IN  IF next = Throw THEN Throw
             ELSE sanitizeProperties(shape, i + 1, raw, next)

\* sanitizeObject without the final schema.parse(result).
sanitizeObjectNoRevalidation(s, raw) ==
    IF raw.t # "object" THEN Throw
    ELSE LET result == sanitizeProperties(s.shape, 1, raw.fields, EmptyFields)
         IN  IF result = Throw THEN Throw ELSE Obj(result)

sanitizeObject(s, raw) ==
    IF raw.t # "object" THEN Throw
    ELSE LET result == sanitizeProperties(s.shape, 1, raw.fields, EmptyFields)
         IN  IF result = Throw THEN Throw ELSE parse(s, Obj(result))

\* The loop stopping one item early.
sanitizeItemsDropLast(elementSchema, i, items, sanitizedArray) ==
    IF i >= Len(items) THEN sanitizedArray
    ELSE LET sanitizedItem == safeSanitizedParser(elementSchema, items[i])
         IN  IF sanitizedItem # Throw /\ sanitizedItem # Null
             THEN sanitizeItems(elementSchema, i + 1, items, Append(sanitizedArray, sanitizedItem))
             ELSE sanitizeItems(elementSchema, i + 1, items, sanitizedArray)

\* The for loop of sanitizeArray from item i on.
sanitizeItems(elementSchema, i, items, sanitizedArray) ==
    IF i > Len(items) THEN sanitizedArray
    ELSE LET sanitizedItem == safeSanitizedParser(elementSchema, items[i])
         IN  IF sanitizedItem # Throw /\ sanitizedItem # Null
             THEN sanitizeItems(elementSchema, i + 1, items, Append(sanitizedArray, sanitizedItem))
             ELSE sanitizeItems(elementSchema, i + 1, items, sanitizedArray)

sanitizeArray(s, raw) ==
    IF raw.t # "array" THEN Throw
    ELSE parse(s, Arr(sanitizeItems(s.type, 1, raw.items, <<>>)))

sanitizeOptional(s, raw) ==
    LET parsed == safeSanitizedParser(s.innerType, raw)
    IN  IF parsed = Throw \/ parsed = Null THEN Undefined ELSE parsed

\* A failed inner value handed back as it came.
sanitizeNullableKeepsRaw(s, raw) ==
    IF raw = Null THEN Null
    ELSE LET inner == safeSanitizedParser(s.innerType, raw)
         IN  IF inner = Throw \/ inner = Null THEN raw ELSE inner

\* A failed inner value turned into undefined, as sanitizeOptional does.
sanitizeNullableToUndefined(s, raw) ==
    IF raw = Null THEN Null
    ELSE LET inner == safeSanitizedParser(s.innerType, raw)
         IN  IF inner = Throw \/ inner = Null THEN Undefined ELSE inner

sanitizeNullable(s, raw) ==
    IF raw = Null THEN Null
    ELSE LET inner == safeSanitizedParser(s.innerType, raw)
         IN  IF inner = Throw \/ inner = Null THEN Null ELSE inner

(***************************************************************************)
(* The inputs of the sanitizer specification.                              *)
(***************************************************************************)
Primitives ==
    {ZString(<<>>, NoDescription), ZNumber(NoDescription),
     ZString(<<UrlCheck>>, NoDescription)}

\* An object with the property "a" under test and a required sibling "b".
ObjectOf(s) == ZObject(<< <<"a", s>>, <<"b", ZString(<<>>, NoDescription)>> >>, NoDescription)

RECURSIVE SchemasOfDepth(_)
SchemasOfDepth(d) ==
    IF d = 0 THEN Primitives
    ELSE LET S == SchemasOfDepth(d - 1)
         IN  Primitives
             \cup {ZOptional(s, NoDescription) : s \in S}
             \cup {ZNullable(s, NoDescription) : s \in S}
             \cup {ZArray(s, NoDescription) : s \in S}
             \cup {ObjectOf(s) : s \in S}

\* Values of the wrong shape for any node, and the primitives.
BaseValues ==
    {Null, Undefined, Str(PlainString), Str(UrlString), Num(1),
     Arr(<<>>), Obj(EmptyFields)}

\* The items that follow the first item of an input array: up to n times null
\* or up to n times a string.
TailElements == {Null, Str(PlainString)}
Tails(n) == {[i \in 1..k |-> e] : k \in 0..n, e \in TailElements}

\* The fields an input object carries besides "a": the sibling "b" (valid,
\* invalid or missing) and a key "c" no schema declares.
RestFields ==
    {EmptyFields,
     [k \in {"b"} |-> Str(UrlString)],
     [k \in {"b"} |-> Num(1)],
     [k \in {"b", "c"} |-> IF k = "b" THEN Str(UrlString) ELSE Num(1)]}

\* The raw values tried against schema s: every base value, and values that
\* follow the shape of s with every candidate of the child schema inside;
\* rest holds the fields an object carries besides "a".
RECURSIVE CandidatesOver(_, _, _)
CandidatesOver(s, base, rest) ==
    CASE s.typeName \in {"ZodOptional", "ZodNullable"} ->
            CandidatesOver(s.innerType, base, rest)
      [] s.typeName = "ZodArray" ->
            base \cup
            {Arr(<<x>> \o t) : x \in CandidatesOver(s.type, base, rest),
                               t \in Tails(MaxLen - 1)}
      [] s.typeName = "ZodObject" ->
            base \cup {Obj(r) : r \in rest} \cup
            {Obj(Put(r, "a", x)) : x \in CandidatesOver(s.shape[1][2], base, rest),
                                  r \in rest}
      [] s.typeName = "ZodString" ->
            base \cup
            (IF \E i \in DOMAIN s.checks : s.checks[i].kind = "min"
             THEN {Str(EmptyString)} ELSE {})
      [] OTHER -> base

Candidates(s) == CandidatesOver(s, BaseValues, RestFields)

NotRun == [t |-> "not run"]

\* The parts of the state a specification does not use.
PromptIdle ==
    /\ request = NotRun
    /\ converted = NotRun
    /\ truncated = NotRun
    /\ prompt = NotRun
    /\ extractResult = NotRun
ExtractorIdle ==
    /\ response = NotRun
    /\ extracted = NotRun
    /\ fixedData = NotRun
    /\ outcome = NotRun
    /\ PromptIdle
ConverterIdle ==
    /\ html = NotRun
    /\ options = NotRun
    /\ sourceUrl = NotRun
    /\ markdown = NotRun
SanitizerIdle ==
    /\ sanitized = NotRun
    /\ resanitized = NotRun
    /\ llmSchema = NotRun
    /\ llmParsed = NotRun
HeapIdle ==
    /\ heap = NotRun
    /\ original = NotRun
    /\ refs = NotRun
BrowserIdle ==
    /\ browser = NotRun
    /\ calls = NotRun
    /\ providerCalls = NotRun
    /\ settled = NotRun
    /\ pages = NotRun
    /\ loading = NotRun

Init ==
    /\ schema \in SchemasOfDepth(MaxDepth)
    /\ rawObject \in Candidates(schema)
    /\ pc = "start"
    /\ sanitized = NotRun
    /\ resanitized = NotRun
    /\ llmSchema = NotRun
    /\ llmParsed = NotRun
    /\ ExtractorIdle /\ ConverterIdle /\ BrowserIdle /\ HeapIdle

\* const result = safeSanitizedParser(schema, rawObject)
Sanitize ==
    /\ pc = "start"
    /\ sanitized' = safeSanitizedParser(schema, rawObject)
    /\ pc' = "sanitized"
    /\ UNCHANGED <<schema, rawObject, resanitized, llmSchema, llmParsed>>
    /\ UNCHANGED <<extractorVars, converterVars, browserVars, heapVars>>

\* safeSanitizedParser(schema, result) on a successful result
Resanitize ==
    /\ pc = "sanitized"
    /\ sanitized # Null
    /\ resanitized' = safeSanitizedParser(schema, sanitized)
    /\ pc' = "resanitized"
    /\ UNCHANGED <<schema, rawObject, sanitized, llmSchema, llmParsed>>
    /\ UNCHANGED <<extractorVars, converterVars, browserVars, heapVars>>

Next == Sanitize \/ Resanitize

Spec == Init /\ [][Next]_vars

(***************************************************************************)
(* The schema transformer: schemas with descriptions and string checks.    *)
(***************************************************************************)
Described == "Profile URL"
Descriptions == {NoDescription, Described}

TransformPrimitives ==
    {ZString(<<MinCheck(1)>>, NoDescription),
     ZString(<<UrlCheck>>, Described),
     ZString(<<MinCheck(1), UrlCheck>>, NoDescription),
     ZNumber(Described)}

RECURSIVE TransformSchemas(_)
TransformSchemas(d) ==
    IF d = 0 THEN TransformPrimitives
    ELSE LET S == TransformSchemas(d - 1)
         IN  TransformPrimitives
             \cup {ZOptional(s, desc) : s \in S, desc \in Descriptions}
             \cup {ZNullable(s, desc) : s \in S, desc \in Descriptions}
             \cup {ZArray(s, desc) : s \in S, desc \in Descriptions}
             \cup {ZObject(<< <<"a", s>>, <<"b", ZString(<<UrlCheck>>, Described)>> >>, desc) :
                      s \in S, desc \in Descriptions}

InitTransform ==
    /\ schema \in TransformSchemas(TransformDepth)
    /\ rawObject \in Candidates(schema)
    /\ pc = "start"
    /\ sanitized = NotRun
    /\ resanitized = NotRun
    /\ llmSchema = NotRun
    /\ llmParsed = NotRun
    /\ ExtractorIdle /\ ConverterIdle /\ BrowserIdle /\ HeapIdle

\* const llmSchema = transformSchemaForLLM(schema)
Transform ==
    /\ pc = "start"
    /\ llmSchema' = transformSchemaForLLM(schema)
    /\ pc' = "transformed"
    /\ UNCHANGED <<schema, rawObject, sanitized, resanitized, llmParsed>>
    /\ UNCHANGED <<extractorVars, converterVars, browserVars, heapVars>>

\* llmSchema.parse(rawObject)
ParseWithLLMSchema ==
    /\ pc = "transformed"
    /\ llmParsed' = parse(llmSchema, rawObject)
    /\ pc' = "parsed"
    /\ UNCHANGED <<schema, rawObject, sanitized, resanitized, llmSchema>>
    /\ UNCHANGED <<extractorVars, converterVars, browserVars, heapVars>>

NextTransform == Transform \/ ParseWithLLMSchema

SpecTransform == InitTransform /\ [][NextTransform]_vars

(***************************************************************************)
(* Shorthands for the claims about safeSanitizedParser.                    *)
(***************************************************************************)
Sanitized == pc \in {"sanitized", "resanitized"}
IsWrapper(s) == s.typeName \in {"ZodOptional", "ZodNullable"}
ObjectCase == Sanitized /\ schema.typeName = "ZodObject" /\ rawObject.t = "object"
ArrayCase == Sanitized /\ schema.typeName = "ZodArray" /\ rawObject.t = "array"

\* C1: whenever safeSanitizedParser returns something other than null, the
\* returned value validates against the schema.
C1_Conformance == (Sanitized /\ sanitized # Null) => Validates(schema, sanitized)

\* A repaired (changed) object or array came back.
C1_Witness ==
    /\ Sanitized /\ sanitized # Null /\ sanitized # rawObject
    /\ schema.typeName \in {"ZodObject", "ZodArray"}
    /\ ~Validates(schema, rawObject)

\* C2: a value that already validates (and that zod's parse leaves as it is)
\* comes back from safeSanitizedParser equal to itself.
C2_ValidReturnedAsIs ==
    (Sanitized /\ parse(schema, rawObject) = rawObject) => sanitized = rawObject

\* C3: sanitizing a successful result again succeeds and returns the same value.
C3_Idempotent == pc = "resanitized" => (resanitized # Null /\ resanitized = sanitized)

\* The first pass repaired something, and the second pass ran on the repair.
C3_Witness ==
    /\ pc = "resanitized" /\ sanitized # rawObject
    /\ schema.typeName \in {"ZodObject", "ZodArray"}

\* A required schema (neither Optional nor Nullable) cannot be met by the value:
\* wrong kind of value, or an object with a required property missing or failing.
RECURSIVE RequiredFails(_, _)
RequiredFails(s, v) ==
    CASE s.typeName = "ZodObject" ->
            \/ v.t # "object"
            \/ \E i \in DOMAIN s.shape :
                  /\ ~IsWrapper(s.shape[i][2])
                  /\ \/ s.shape[i][1] \notin DOMAIN v.fields
                     \/ RequiredFails(s.shape[i][2], v.fields[s.shape[i][1]])
      [] s.typeName = "ZodArray" -> v.t # "array"
      [] OTHER -> ~Validates(s, v)

\* C4: an object with a required property that is missing or fails to sanitize
\* (at any depth of required objects) is UNSANITIZABLE; a returned object owns
\* every required property, a primitive one with the input's value.
C4_RequiredStrict ==
    ObjectCase =>
       /\ RequiredFails(schema, rawObject) => sanitized = Null
       /\ sanitized # Null =>
             \A i \in DOMAIN schema.shape :
                ~IsWrapper(schema.shape[i][2]) =>
                   /\ schema.shape[i][1] \in DOMAIN sanitized.fields
                   /\ schema.shape[i][2].typeName \in {"ZodString", "ZodNumber"} =>
                         sanitized.fields[schema.shape[i][1]]
                            = rawObject.fields[schema.shape[i][1]]

\* A required property nested in a required object fails, and the parent fails.
C4_Witness ==
    /\ ObjectCase /\ sanitized = Null
    /\ schema.shape[1][2].typeName = "ZodObject"
    /\ "a" \in DOMAIN rawObject.fields /\ "b" \in DOMAIN rawObject.fields
    /\ rawObject.fields["a"].t = "object"
    /\ Validates(schema.shape[2][2], rawObject.fields["b"])
    /\ RequiredFails(schema.shape[1][2], rawObject.fields["a"])

\* C5: an Optional property present with an invalid value, one that fails to
\* sanitize against the inner schema, is absent from the returned object (the
\* key is not owned at all), and the object is returned.
C5_OptionalOmitted ==
    (/\ ObjectCase
     /\ schema.shape[1][2].typeName = "ZodOptional"
     /\ "a" \in DOMAIN rawObject.fields
     /\ ~Validates(schema.shape[1][2], rawObject.fields["a"])
     /\ safeSanitizedParser(schema.shape[1][2].innerType, rawObject.fields["a"]) = Null
     /\ ~RequiredFails(schema, rawObject))
    => (sanitized # Null /\ "a" \notin DOMAIN sanitized.fields)

\* C6: a Nullable property present with a value that fails against the inner
\* schema is returned with the explicit value null, and the object is returned.
C6_NullableSetToNull ==
    (/\ ObjectCase
     /\ schema.shape[1][2].typeName = "ZodNullable"
     /\ "a" \in DOMAIN rawObject.fields
     /\ safeSanitizedParser(schema.shape[1][2].innerType, rawObject.fields["a"]) = Null
     /\ ~RequiredFails(schema, rawObject))
    => (/\ sanitized # Null
        /\ "a" \in DOMAIN sanitized.fields
        /\ sanitized.fields["a"] = Null)

\* An invalid, non-null value of a Nullable property was replaced by null.
C6_Witness ==
    /\ ObjectCase
    /\ schema.shape[1][2].typeName = "ZodNullable"
    /\ "a" \in DOMAIN rawObject.fields
    /\ rawObject.fields["a"] \notin {Null, Undefined}
    /\ ~Validates(schema.shape[1][2], rawObject.fields["a"])
    /\ sanitized # Null
    /\ sanitized.fields["a"] = Null

\* The sanitized forms of the items that sanitize to something, in order.
RECURSIVE Survivors(_, _)
Survivors(elementSchema, items) ==
    IF items = <<>> THEN <<>>
    ELSE LET r == safeSanitizedParser(elementSchema, Head(items))
         IN  (IF r # Null THEN <<r>> ELSE <<>>) \o Survivors(elementSchema, Tail(items))

\* C7: the result of an array is exactly the sanitized forms of the elements
\* that succeed, in input order; with a Nullable or Optional element schema
\* every element succeeds, so none is dropped.
C7_ArrayFiltering ==
    ArrayCase =>
       /\ sanitized.t = "array"
       /\ IF IsWrapper(schema.type)
          THEN Len(sanitized.items) = Len(rawObject.items)
          ELSE sanitized.items = Survivors(schema.type, rawObject.items)

\* Keys of a returned object are declared by the schema and owned by the
\* input, also inside the objects nested under its properties.
RECURSIVE NoKeyGained(_, _, _)
NoKeyGained(s, out, raw) ==
    CASE IsWrapper(s) -> NoKeyGained(s.innerType, out, raw)
      [] s.typeName = "ZodObject" /\ out.t = "object" ->
            /\ raw.t = "object"
            /\ DOMAIN out.fields \subseteq (ShapeKeys(s.shape) \cap DOMAIN raw.fields)
            /\ \A k \in DOMAIN out.fields :
                  NoKeyGained(ShapeSchema(s.shape, k), out.fields[k], raw.fields[k])
      [] OTHER -> TRUE

\* C8: the keys of every returned object are a subset of the declared property
\* names that the input object owns.
C8_NoKeyGained ==
    (Sanitized /\ schema.typeName = "ZodObject" /\ sanitized # Null)
    => NoKeyGained(schema, sanitized, rawObject)

\* An undeclared key was dropped and a declared, non-required one was absent.
C8_Witness ==
    /\ ObjectCase /\ sanitized # Null
    /\ "c" \in DOMAIN rawObject.fields
    /\ "a" \notin DOMAIN rawObject.fields
    /\ DOMAIN sanitized.fields = {"b"}

(***************************************************************************)
(* Claims about transformSchemaForLLM.                                     *)
(***************************************************************************)
Strings == {EmptyString, PlainString, UrlString}

\* At every string node of s that requires a url, t accepts every string that
\* passes the node's other checks.
RECURSIVE UrlNodesRelaxed(_, _)
UrlNodesRelaxed(s, t) ==
    /\ t.typeName = s.typeName
    /\ CASE s.typeName = "ZodString" ->
               isUrlSchema(s) =>
                  \A str \in Strings :
                     (\A i \in DOMAIN s.checks :
                         s.checks[i].kind # "url" => CheckPasses(s.checks[i], str))
                     => Validates(t, Str(str))
         [] s.typeName = "ZodObject" ->
               /\ Len(t.shape) = Len(s.shape)
               /\ \A i \in DOMAIN s.shape : UrlNodesRelaxed(s.shape[i][2], t.shape[i][2])
         [] s.typeName = "ZodArray" -> UrlNodesRelaxed(s.type, t.type)
         [] s.typeName \in {"ZodOptional", "ZodNullable"} ->
               UrlNodesRelaxed(s.innerType, t.innerType)
         [] OTHER -> TRUE

\* C9: transformSchemaForLLM only widens: a value the schema accepts is accepted
\* by the transformed schema, and every url string node of the schema accepts,
\* once transformed, any string that meets the node's remaining constraints.
C9_WidensOnly ==
    /\ pc = "parsed" => (Validates(schema, rawObject) => llmParsed # Throw)
    /\ pc \in {"transformed", "parsed"} => UrlNodesRelaxed(schema, llmSchema)

\* A value with a non-URL string at a url node below a wrapper: rejected by the
\* schema, accepted by the transformed schema.
C9_Witness ==
    /\ pc = "parsed"
    /\ schema.typeName \in {"ZodObject", "ZodArray"}
    /\ ~Validates(schema, rawObject)
    /\ llmParsed # Throw
    /\ llmParsed # Arr(<<>>)

\* The checks without the url checks, in order.
RECURSIVE WithoutUrl(_)
WithoutUrl(checks) ==
    IF checks = <<>> THEN <<>>
    ELSE (IF Head(checks).kind = "url" THEN <<>> ELSE <<Head(checks)>>)
         \o WithoutUrl(Tail(checks))

\* t is s node for node (kind, description, property names and order, nesting,
\* non-url checks) except that string nodes have lost their url checks.
RECURSIVE SameButUrl(_, _)
SameButUrl(s, t) ==
    /\ t.typeName = s.typeName
    /\ t.description = s.description
    /\ CASE s.typeName = "ZodString" -> t.checks = WithoutUrl(s.checks)
         [] s.typeName = "ZodObject" ->
               /\ Len(t.shape) = Len(s.shape)
               /\ \A i \in DOMAIN s.shape :
                     /\ t.shape[i][1] = s.shape[i][1]
                     /\ SameButUrl(s.shape[i][2], t.shape[i][2])
         [] s.typeName = "ZodArray" -> SameButUrl(s.type, t.type)
         [] s.typeName \in {"ZodOptional", "ZodNullable"} ->
               SameButUrl(s.innerType, t.innerType)
         [] OTHER -> t = s

\* C10: the transformed schema has the same node kinds, property names and
\* order, nesting, non-url constraints and descriptions as the schema; only
\* the url constraints of string nodes are gone.
C10_PreservesAllButUrl ==
    pc \in {"transformed", "parsed"} => SameButUrl(schema, llmSchema)

\* A described object whose described url property lost only its url check.
C10_Witness ==
    /\ pc = "transformed"
    /\ schema.typeName = "ZodObject"
    /\ schema.description = Described
    /\ schema.shape[1][2] = ZOptional(ZString(<<MinCheck(1), UrlCheck>>, NoDescription), Described)
    /\ llmSchema.shape[1][2] = ZOptional(ZString(<<MinCheck(1)>>, NoDescription), Described)
    /\ llmSchema.shape[2] = <<"b", ZString(<<>>, Described)>>

(***************************************************************************)
(* The URL repair on its own: fixUrlEscapeSequences applied to a value     *)
(* that carries escaped parentheses in url and in other positions.         *)
(***************************************************************************)
\* Nesting depth of the schemas drawn for the URL repair.
FixDepth == 2

\* "http://a.co\(\(\)" and "\\()": escaped parentheses after a scheme, and a
\* backslash before an escaped parenthesis.
EscapedUrl == <<"http://a.co", Backslash, "(", Backslash, "(", Backslash, ")">>
TwiceEscaped == <<Backslash, Backslash, "(", ")">>

FixValues == BaseValues \cup {Str(EscapedUrl), Str(TwiceEscaped)}

\* Besides "a": nothing, the sibling "b" (a string without url check), and a
\* key "c" that the schema does not declare.
FixRestFields ==
    {EmptyFields,
     [k \in {"b"} |-> Str(EscapedUrl)],
     [k \in {"b", "c"} |-> Str(EscapedUrl)]}

InitFix ==
    /\ schema \in SchemasOfDepth(FixDepth)
    /\ extracted \in CandidatesOver(schema, FixValues, FixRestFields)
    /\ pc = "extracted"
    /\ rawObject = NotRun
    /\ response = NotRun
    /\ fixedData = NotRun
    /\ outcome = NotRun
    /\ PromptIdle /\ SanitizerIdle /\ ConverterIdle /\ BrowserIdle /\ HeapIdle

\* const fixedData = fixUrlEscapeSequences(data, schema)
FixUrls ==
    /\ pc = "extracted"
    /\ fixedData' = fixUrlEscapeSequences(extracted, schema)
    /\ pc' = "fixed"
    /\ UNCHANGED <<response, extracted, outcome, promptVars>>
    /\ UNCHANGED <<sanitizerVars, converterVars, browserVars, heapVars>>

NextFix == FixUrls

SpecFix == InitFix /\ [][NextFix]_vars

\* One pass over the string that drops the backslash of every backslash-
\* parenthesis pair it meets.
RECURSIVE Unescaped(_)
Unescaped(str) ==
    IF Len(str) < 2 THEN str
    ELSE IF str[1] = Backslash /\ str[2] \in {"(", ")"}
    THEN <<str[2]>> \o Unescaped(SubSeq(str, 3, Len(str)))
    ELSE <<str[1]>> \o Unescaped(Tail(str))

\* result is value with the url string leaves unescaped and every other leaf
\* that has a position in schema s as it was.
RECURSIVE UrlLeavesFixed(_, _, _)
UrlLeavesFixed(s, value, result) ==
    IF value \in {Null, Undefined} THEN result = value
    ELSE CASE s.typeName \in {"ZodOptional", "ZodNullable"} ->
                 UrlLeavesFixed(s.innerType, value, result)
           [] s.typeName = "ZodString" /\ isUrlSchema(s) /\ value.t = "string" ->
                 result = Str(Unescaped(value.s))
           [] s.typeName = "ZodObject" /\ value.t = "object" ->
                 /\ result.t = "object"
                 /\ \A i \in DOMAIN s.shape :
                       s.shape[i][1] \in DOMAIN value.fields =>
                          /\ s.shape[i][1] \in DOMAIN result.fields
                          /\ UrlLeavesFixed(s.shape[i][2], value.fields[s.shape[i][1]],
                                            result.fields[s.shape[i][1]])
           [] s.typeName = "ZodArray" /\ value.t = "array" ->
                 /\ result.t = "array"
                 /\ Len(result.items) = Len(value.items)
                 /\ \A i \in DOMAIN value.items :
                       UrlLeavesFixed(s.type, value.items[i], result.items[i])
           [] OTHER -> result = value

RECURSIVE SameStructure(_, _)
SameStructure(value, result) ==
    CASE value.t = "object" ->
            /\ result.t = "object"
            /\ DOMAIN result.fields = DOMAIN value.fields
            /\ \A k \in DOMAIN value.fields :
                  SameStructure(value.fields[k], result.fields[k])
      [] value.t = "array" ->
            /\ result.t = "array"
            /\ Len(result.items) = Len(value.items)
            /\ \A i \in DOMAIN value.items :
                  SameStructure(value.items[i], result.items[i])
      [] OTHER -> result.t = value.t

\* C12: fixUrlEscapeSequences returns for every value and schema, and its
\* result has exactly the keys of the input at every level (none dropped,
\* none added) and arrays of the same lengths.
C12_StructurePreserved ==
    pc = "fixed" => fixedData # Throw /\ SameStructure(extracted, fixedData)

(***************************************************************************)
(* htmlToMarkdown (src/src/converters.ts).  A document is a sequence of    *)
(* nodes: text nodes, which carry the number of their characters, and      *)
(* elements with a tag, attributes and children.  The markdown is the      *)
(* sequence of the pieces the turndown rules produce.                      *)
(***************************************************************************)
TextNode(n) == [tag |-> "#text", length |-> n]
Element(tag, attribs, children) == [tag |-> tag, attribs |-> attribs, children |-> children]
NoAttribs == [k \in {} |-> <<>>]

TextPiece(n) == [kind |-> "text", length |-> n]
LinkPiece(content, href) == [kind |-> "link", content |-> content, url |-> href]
ImagePiece(alt, src) == [kind |-> "image", alt |-> alt, url |-> src]

\* node.getAttribute(name): the attribute's value, or the empty string where
\* the code only tests the result for truthiness.
getAttribute(node, name) ==
    IF name \in DOMAIN node.attribs THEN node.attribs[name] ELSE <<>>

\* options?.name is truthy
OptionOn(opts, name) == opts.given /\ opts[name] = "true"

\* sourceUrl is truthy: given and not the empty string
Provided(source) == source # Undefined /\ source.s # <<>>

\* str.startsWith(prefix), for the three prefixes the rules test.  The first
\* element of a string decides: a scheme, or a path word that begins with http.
startsWith(str, prefix) ==
    /\ str # <<>>
    /\ CASE prefix = "http" -> str[1] \in (Schemes \ {"mailto:", "data:"}) \cup {"httpdocs"}
         [] prefix = "mailto:" -> str[1] = "mailto:"
         [] prefix = "data:" -> str[1] = "data:"

\* Escaping that puts two backslashes before a parenthesis.
RECURSIVE escapeParensTwice(_)
escapeParensTwice(str) ==
    IF str = <<>> THEN <<>>
    ELSE IF str[1] \in {"(", ")"}
    THEN <<Backslash, Backslash, str[1]>> \o escapeParensTwice(Tail(str))
    ELSE <<str[1]>> \o escapeParensTwice(Tail(str))

\* href.replace(/([()])/g, "\\$1")
RECURSIVE escapeParens(_)
escapeParens(str) ==
    IF str = <<>> THEN <<>>
    ELSE IF str[1] \in {"(", ")"}
    THEN <<Backslash, str[1]>> \o escapeParens(Tail(str))
    ELSE <<str[1]>> \o escapeParens(Tail(str))

\* href.replace(/\s+/g, "").trim()
Whitespace == {" ", "\n"}
IsNotWhitespace(c) == c \notin Whitespace
removeWhitespace(str) == SelectSeq(str, IsNotWhitespace)

\* attribute ? attribute.replace(/(\n+\s*)+/g, "\n") : "": every run of
\* whitespace that starts with a newline becomes one newline.
RECURSIVE cleanAttribute(_)
cleanAttribute(attribute) ==
    IF attribute = <<>> THEN <<>>
    ELSE IF attribute[1] = "\n"
    THEN LET rest == Tail(attribute)
             skip == IF \E i \in DOMAIN rest : rest[i] \notin Whitespace
                     THEN (CHOOSE i \in DOMAIN rest :
                              /\ rest[i] \notin Whitespace
                              /\ \A j \in 1..(i - 1) : rest[j] \in Whitespace) - 1
                     ELSE Len(rest)
         IN  <<"\n">> \o cleanAttribute(SubSeq(rest, skip + 1, Len(rest)))
    ELSE <<attribute[1]>> \o cleanAttribute(Tail(attribute))

\* url.resolve(from, to) of Node: a target with a scheme stands for itself,
\* a target that starts with "/" replaces the path of the base, any other
\* target replaces what follows the last "/" of the base; a space in the
\* target comes back percent-encoded.
HasScheme(str) == str # <<>> /\ str[1] \in Schemes
PercentEncoded(str) == [i \in DOMAIN str |-> IF str[i] = " " THEN "%20" ELSE str[i]]
Directory(base) ==
    IF \E i \in 2..Len(base) : base[i] = "/"
    THEN SubSeq(base, 1, CHOOSE i \in 2..Len(base) :
                            base[i] = "/" /\ \A j \in (i + 1)..Len(base) : base[j] # "/")
    ELSE <<base[1], "/">>
resolve(from, to) ==
    IF HasScheme(to) THEN PercentEncoded(to)
    ELSE IF to[1] = "/" THEN <<from[1]>> \o PercentEncoded(to)
    ELSE Directory(from) \o PercentEncoded(to)

\* The tags tidyHtml removes wherever they are.
ManuallyCleanedElements ==
    {"aside", "embed", "head", "iframe", "menu", "object", "script", "applet",
     "audio", "canvas", "map", "svg", "video", "area", "blink", "button",
     "datalist", "dialog", "frame", "frameset", "link", "input", "ins",
     "legend", "marquee", "math", "menuitem", "nav", "noscript", "optgroup",
     "output", "param", "progress", "rp", "rt", "rtc", "source", "style",
     "track", "textarea", "time", "use"}

\* A tidy pass that never removes the image elements.
cleanedElementsWithImages(includeImages) == ManuallyCleanedElements

\* if (!includeImages) manuallyCleanedElements.push("img", "picture", "figure")
cleanedElements(includeImages) ==
    ManuallyCleanedElements \cup
    (IF ~includeImages THEN {"img", "picture", "figure"} ELSE {})

\* An attribute name with a quote in it: attr.includes('"')
QuotedAttribute == "alt\""
hasQuotedAttribute(node) == QuotedAttribute \in DOMAIN node.attribs

\* The nodes that are left when every element with a quoted attribute name
\* and every cleaned element is removed, at any depth.
RECURSIVE tidyNodes(_, _)
tidyNodes(nodes, includeImages) ==
    IF nodes = <<>> THEN <<>>
    ELSE LET node == Head(nodes)
             rest == tidyNodes(Tail(nodes), includeImages)
         IN  IF node.tag = "#text" THEN <<node>> \o rest
             ELSE IF hasQuotedAttribute(node) \/ node.tag \in cleanedElements(includeImages)
             THEN rest
             ELSE <<[node EXCEPT !.children = tidyNodes(node.children, includeImages)]>> \o rest

tidyHtml(document, includeImages) == tidyNodes(document, includeImages)

\* The filter of the remove-irrelevant rule.
elementsToRemove(opts) ==
    {"meta", "style", "script", "noscript", "link", "textarea"} \cup
    (IF ~OptionOn(opts, "includeImages") THEN {"img", "picture", "figure"} ELSE {})

\* A link rule that resolves whenever a sourceUrl is given.
linkUrlAlwaysResolved(href, source) ==
    removeWhitespace(escapeParens(
        IF Provided(source) THEN resolve(source.s, href) ELSE href))

\* The href the improved-inline-link rule emits.
linkUrl(href, source) ==
    removeWhitespace(escapeParens(
        IF Provided(source) /\ ~startsWith(href, "http") /\ ~startsWith(href, "mailto:")
        THEN resolve(source.s, href)
        ELSE href))

\* The src the images rule emits.
imageUrl(src, source) ==
    removeWhitespace(escapeParens(
        IF Provided(source) /\ ~startsWith(src, "http") /\ ~startsWith(src, "data:")
        THEN resolve(source.s, src)
        ELSE src))

\* turndownService.turndown: each node is rewritten by the first rule whose
\* filter matches it, the rules added last coming first (images, improved-
\* inline-link, improved-paragraph, title-as-h1, truncate-svg, remove-
\* irrelevant), then turndown's own rules, which hand the content through.
RECURSIVE turndown(_, _, _)
turndown(nodes, opts, source) ==
    IF nodes = <<>> THEN <<>>
    ELSE LET node == Head(nodes)
             rest == turndown(Tail(nodes), opts, source)
         IN  IF node.tag = "#text"
             THEN (IF node.length = 0 THEN <<>> ELSE <<TextPiece(node.length)>>) \o rest
             ELSE LET content == turndown(node.children, opts, source)
                  IN  CASE node.tag = "img" ->
                              (IF getAttribute(node, "src") # <<>>
                               THEN <<ImagePiece(cleanAttribute(getAttribute(node, "alt")),
                                                 imageUrl(getAttribute(node, "src"), source))>>
                               ELSE <<>>) \o rest
                        [] node.tag = "a" /\ getAttribute(node, "href") # <<>> ->
                              <<LinkPiece(content, linkUrl(getAttribute(node, "href"), source))>>
                              \o rest
                        [] node.tag = "svg" -> rest
                        [] node.tag \notin {"img", "a", "svg"}
                           /\ node.tag \in elementsToRemove(opts) -> rest
                        [] OTHER -> content \o rest

\* The class words for which the first discard XPath removes a div, item,
\* list, p, section or span.
DiscardedClasses ==
    {"footer", "related", "viral", "social", "sociable", "syndication",
     "embedded", "embed", "newsletter", "subnav", "cookie", "banner", "meta",
     "menu", "navigation", "navbar", "navbox", "breadcrumb", "button", "byline"}
isDiscarded(node) ==
    /\ node.tag \in {"div", "item", "list", "p", "section", "span"}
    /\ \E i \in DOMAIN getAttribute(node, "class") :
          getAttribute(node, "class")[i] \in DiscardedClasses

RECURSIVE removeDiscarded(_)
removeDiscarded(nodes) ==
    IF nodes = <<>> THEN <<>>
    ELSE LET node == Head(nodes)
             rest == removeDiscarded(Tail(nodes))
         IN  IF node.tag = "#text" THEN <<node>> \o rest
             ELSE IF isDiscarded(node) THEN rest
             ELSE <<[node EXCEPT !.children = removeDiscarded(node.children)]>> \o rest

\* return refinedHtml == "" ? html : refinedHtml
extractMainHtml(document) ==
    LET refinedHtml == removeDiscarded(document)
    IN  IF refinedHtml = <<>> THEN document ELSE refinedHtml

\* The number of characters of the markdown.
RECURSIVE Length(_)
Length(pieces) ==
    IF pieces = <<>> THEN 0
    ELSE LET piece == Head(pieces)
         IN  Length(Tail(pieces)) +
             CASE piece.kind = "text" -> piece.length
               [] piece.kind = "link" -> 4 + Length(piece.content) + Len(piece.url)
               [] piece.kind = "image" -> 5 + Len(piece.alt) + Len(piece.url)

\* The two thresholds of the main-content heuristics.
FallbackPercent == 20
FallbackLength == 500

\* The heuristics with "or" between the two thresholds.
usesFullMarkdownEither(mainLength, fullLength) ==
    \/ mainLength = 0
    \/ 100 * mainLength < FallbackPercent * fullLength
    \/ mainLength < FallbackLength

\* mainMarkdown.length == 0 || (mainMarkdown.length < fullMarkdown.length * 0.2
\* && mainMarkdown.length < 500); for whole numbers m and f, m < f * 0.2 in
\* double arithmetic says the same as 100 * m < 20 * f.
usesFullMarkdown(mainLength, fullLength) ==
    \/ mainLength = 0
    \/ /\ 100 * mainLength < FallbackPercent * fullLength
       /\ mainLength < FallbackLength

htmlToMarkdown(document, opts, source) ==
    LET tidiedHtml == tidyHtml(document, OptionOn(opts, "includeImages"))
        fullMarkdown == turndown(tidiedHtml, opts, source)
    IN  IF OptionOn(opts, "extractMainHtml")
        THEN LET mainMarkdown == turndown(extractMainHtml(tidiedHtml), opts, source)
             IN  IF usesFullMarkdown(Length(mainMarkdown), Length(fullMarkdown))
                 THEN fullMarkdown
                 ELSE mainMarkdown
        ELSE fullMarkdown

\* The options argument: absent, or an object whose properties are true,
\* false or missing.
OptionValues == {"true", "false", "undefined"}
NoOptions ==
    [given |-> FALSE, includeImages |-> "undefined", extractMainHtml |-> "undefined",
     cleanUrls |-> "undefined"]
Options(includeImages, extractMain, cleanUrls) ==
    [given |-> TRUE, includeImages |-> includeImages, extractMainHtml |-> extractMain,
     cleanUrls |-> cleanUrls]

\* const markdown = htmlToMarkdown(html, options, sourceUrl)
Convert ==
    /\ pc = "start"
    /\ markdown' = htmlToMarkdown(html, options, sourceUrl)
    /\ pc' = "converted"
    /\ UNCHANGED <<html, options, sourceUrl>>
    /\ UNCHANGED <<sanitizerVars, extractorVars, browserVars, heapVars>>

(***************************************************************************)
(* The round trip of a URL: the link rule escapes the href of a link, the  *)
(* model echoes the URL it reads in the markdown, and the repair runs on   *)
(* it under a url string schema.                                           *)
(***************************************************************************)
\* Longest path (in characters after the scheme) of the URLs drawn.
MaxStrLen == 4

RECURSIVE StringsOver(_, _)
StringsOver(alphabet, n) ==
    IF n = 0 THEN {<<>>}
    ELSE LET shorter == StringsOver(alphabet, n - 1)
         IN  shorter \cup {Append(str, c) : str \in shorter, c \in alphabet}

\* Every URL with the scheme and host "http://a.co" whose path is written
\* with a letter, parentheses and backslashes.
UrlStrings == {<<"http://a.co">> \o path : path \in StringsOver({"x", "(", ")", Backslash}, MaxStrLen)}

InitRoundTrip ==
    /\ html \in {<<Element("a", [k \in {"href"} |-> u], <<TextNode(1)>>)>> : u \in UrlStrings}
    /\ options = NoOptions
    /\ sourceUrl = Undefined
    /\ markdown = NotRun
    /\ schema = ZString(<<UrlCheck>>, NoDescription)
    /\ pc = "start"
    /\ rawObject = NotRun
    /\ ExtractorIdle /\ SanitizerIdle /\ BrowserIdle /\ HeapIdle

\* The language model answers with the URL of the link it read.
EchoUrl ==
    /\ pc = "converted"
    /\ markdown # <<>>
    /\ markdown[1].kind = "link"
    /\ extracted' = Str(markdown[1].url)
    /\ pc' = "extracted"
    /\ UNCHANGED <<response, fixedData, outcome, promptVars>>
    /\ UNCHANGED <<sanitizerVars, converterVars, browserVars, heapVars>>

NextRoundTrip == Convert \/ EchoUrl \/ FixUrls

SpecRoundTrip == InitRoundTrip /\ [][NextRoundTrip]_vars

\* C13: for every URL u, the link rule's escaping (a backslash before every
\* parenthesis) followed by the repair of fixUrlEscapeSequences on a url
\* string leaf gives back exactly u.
C13_EscapeRoundTrip ==
    pc = "fixed" => fixedData = Str(getAttribute(html[1], "href"))

\* A URL with both parentheses and a backslash of its own, escaped in the
\* markdown and repaired.
C13_Witness ==
    /\ pc = "fixed"
    /\ \A c \in {"(", ")", Backslash} :
          \E i \in DOMAIN getAttribute(html[1], "href") : getAttribute(html[1], "href")[i] = c
    /\ extracted # fixedData
    /\ Len(extracted.s) > Len(fixedData.s)

(***************************************************************************)
(* extractWithLLM (src/src/extractors.ts): the call up to the await of     *)
(* structuredOutputLLM.invoke, and its resumption with what the model      *)
(* answered.  The prompt decides nothing the program checks, so the answer *)
(* is any response the structured-output chain can settle with.            *)
(***************************************************************************)
\* Nesting depth of the schemas drawn for extractWithLLM.
ExtractDepth == 2

\* A value JSON can carry: no undefined anywhere.
RECURSIVE IsJson(_)
IsJson(value) ==
    CASE value.t = "undefined" -> FALSE
      [] value.t = "array" -> \A i \in DOMAIN value.items : IsJson(value.items[i])
      [] value.t = "object" -> \A k \in DOMAIN value.fields : IsJson(value.fields[k])
      [] OTHER -> TRUE

\* What the model may have written for schema s.
ExtractValues == (BaseValues \ {Undefined}) \cup {Str(EscapedUrl)}
RawObjects(s) == {v \in CandidatesOver(s, ExtractValues, RestFields) : IsJson(v)}

\* raw.lc_kwargs.content: missing, or a text that jsonrepair cannot repair,
\* or a text that repairs and parses to a value.
NoContent == [t |-> "undefined"]
UnrepairableContent == [t |-> "text", repairable |-> FALSE]
JsonContent(value) == [t |-> "text", repairable |-> TRUE, value |-> value]

\* The settled response: parsed is the chain's output under the LLM schema,
\* or null when its parser failed; raw carries the tool calls and content.
Response(parsed, toolCalls, content) ==
    [settled |-> "fulfilled", parsed |-> parsed,
     raw |-> [tool_calls |-> toolCalls, content |-> content]]
Rejected == [settled |-> "rejected"]

Responses(s, llm) ==
    {Rejected}
    \cup {Response(parse(llm, v), <<>>, NoContent) :
            v \in {w \in RawObjects(s) : parse(llm, w) \notin {Throw, Null}}}
    \cup {Response(Null, toolCalls, content) :
            toolCalls \in {<<>>} \cup {<<v>> : v \in RawObjects(s)},
            content \in {NoContent, UnrepairableContent}}
    \cup {Response(Null, toolCalls, JsonContent(v)) :
            toolCalls \in {<<>>, <<Str(UrlString)>>}, v \in RawObjects(s)}

Returned(value) == [kind |-> "returned", data |-> value]
Thrown(message) == [kind |-> "thrown", message |-> message]

\* The final validation done with the schema the model was given.
validateFixedRelaxed(s, fixed) == safeSanitizedParser(transformSchemaForLLM(s), fixed)

\* The final validation done with schema.parse: nothing is dropped.
validateFixedStrictly(s, fixed) ==
    IF parse(s, fixed) = Throw THEN Null ELSE parse(s, fixed)

\* const validatedData = safeSanitizedParser(schema, fixedData)
validateFixed(s, fixed) == safeSanitizedParser(s, fixed)

\* let data = response.parsed, and the fallbacks on the raw output when
\* data == null: Throw where JSON.parse(jsonrepair(rawJson)) throws.
dataOf(r, llm) ==
    IF r.parsed # Null THEN r.parsed
    ELSE LET fromToolCalls ==
                 IF r.raw.tool_calls # <<>>
                 THEN safeSanitizedParser(llm, r.raw.tool_calls[1])
                 ELSE Null
         IN  IF r.raw.content = NoContent THEN fromToolCalls
             ELSE IF ~r.raw.content.repairable THEN Throw
             ELSE safeSanitizedParser(llm, r.raw.content.value)

InitExtract ==
    /\ schema \in SchemasOfDepth(ExtractDepth)
    /\ pc = "start"
    /\ rawObject = NotRun
    /\ ExtractorIdle /\ SanitizerIdle /\ ConverterIdle /\ BrowserIdle /\ HeapIdle

\* extractWithLLM up to `await structuredOutputLLM.invoke(prompt, ...)`
InvokeLLM ==
    /\ pc = "start"
    /\ llmSchema' = transformSchemaForLLM(schema)
    /\ pc' = "awaiting"
    /\ UNCHANGED <<schema, rawObject, sanitized, resanitized, llmParsed>>
    /\ UNCHANGED <<extractorVars, converterVars, browserVars, heapVars>>

\* extractWithLLM from the settled await to its return or throw
ResumeExtract ==
    /\ pc = "awaiting"
    /\ \E r \in Responses(schema, llmSchema) :
          /\ response' = r
          /\ IF r = Rejected
             THEN /\ extracted' = NotRun
                  /\ fixedData' = NotRun
                  /\ outcome' = Thrown("invoke rejected")
             ELSE LET extractedData == dataOf(r, llmSchema)
                  IN  IF extractedData = Throw
                      THEN /\ extracted' = NotRun
                           /\ fixedData' = NotRun
                           /\ outcome' = Thrown("JSON.parse failed")
                      ELSE IF extractedData \in {Null, Undefined}
                      THEN /\ extracted' = extractedData
                           /\ fixedData' = NotRun
                           /\ outcome' = Thrown("No valid data was extracted")
                      ELSE LET fixed == fixUrlEscapeSequences(extractedData, schema)
                               validatedData == validateFixed(schema, fixed)
                           IN  /\ extracted' = extractedData
                               /\ fixedData' = fixed
                               /\ outcome' =
                                    IF validatedData = Null
                                    THEN Thrown("Extracted data failed validation against original schema")
                                    ELSE Returned(validatedData)
    /\ pc' = "done"
    /\ UNCHANGED <<promptVars, sanitizerVars, converterVars, browserVars, heapVars>>

NextExtract == InvokeLLM \/ ResumeExtract

SpecExtract == InitExtract /\ [][NextExtract]_vars

ValidationFailure == Thrown("Extracted data failed validation against original schema")

\* C14 as stated: whenever the repaired value does not validate against the
\* original schema (a url leaf in an array or an optional property that is
\* still no well-formed URL included), extractWithLLM throws.
C14_InvalidRepairedThrows ==
    (pc = "done" /\ fixedData # NotRun /\ ~Validates(schema, fixedData))
        => outcome.kind = "thrown"

\* C14, amended: the repaired value is sanitized against the original
\* schema; extractWithLLM throws its validation failure exactly when the
\* sanitizer returns null for the repaired value, and otherwise returns the
\* sanitized value, from which invalid array elements and optional
\* properties have been dropped.
C14_ThrowsWhenUnsanitizable ==
    (pc = "done" /\ fixedData # NotRun) =>
        /\ outcome = ValidationFailure <=> safeSanitizedParser(schema, fixedData) = Null
        /\ outcome # ValidationFailure =>
              outcome = Returned(safeSanitizedParser(schema, fixedData))

\* An array of URLs whose only element is no URL: the repaired value does not
\* validate, the element is dropped and the empty array is returned.
C14_Witness ==
    /\ pc = "done"
    /\ schema.typeName = "ZodArray"
    /\ isUrlSchema(schema.type)
    /\ fixedData = Arr(<<Str(PlainString)>>)
    /\ ~Validates(schema, fixedData)
    /\ outcome = Returned(Arr(<<>>))

\* C15: every call of extractWithLLM ends by throwing or by returning data
\* that is not null and validates against the caller's original schema, url
\* checks included, whether the data came from the structured output or from
\* the raw output.
C15_ReturnsValidOrThrows ==
    pc = "done" =>
        \/ outcome.kind = "thrown"
        \/ /\ outcome.kind = "returned"
           /\ outcome.data # Null
           /\ Validates(schema, outcome.data)

\* The raw-output path ending in a return: the structured output failed, the
\* tool call carried an object with a URL under "a", and it is returned.
C15_Witness ==
    /\ pc = "done"
    /\ response # Rejected
    /\ response.parsed = Null
    /\ response.raw.tool_calls # <<>>
    /\ response.raw.content = NoContent
    /\ schema.typeName = "ZodObject"
    /\ isUrlSchema(schema.shape[1][2])
    /\ outcome.kind = "returned"
    /\ outcome.data.fields["a"] = Str(UrlString)

(***************************************************************************)
(* The main-content fallback of htmlToMarkdown: documents made of blocks   *)
(* of text, some of them in a div that the discard XPaths remove.          *)
(***************************************************************************)
\* Most blocks of a document.
MaxNodes == 2

\* Lengths of text around the two thresholds (500 characters, a fifth of the
\* full length).
TextLengths == {1, 99, 100, 400, 401, 499, 500, 1997, 2001}

MainBlock(n) == Element("div", NoAttribs, <<TextNode(n)>>)
FooterBlock(n) == Element("div", [k \in {"class"} |-> <<"footer">>], <<TextNode(n)>>)
Blocks ==
    {MainBlock(n) : n \in TextLengths} \cup {FooterBlock(n) : n \in TextLengths}
    \cup {Element("div", NoAttribs, <<FooterBlock(1)>>)}

RECURSIVE DocumentsOf(_, _)
DocumentsOf(nodes, n) ==
    IF n = 0 THEN {<<>>}
    ELSE LET shorter == DocumentsOf(nodes, n - 1)
         IN  shorter \cup {Append(d, node) : d \in shorter, node \in nodes}

InitFallback ==
    /\ html \in DocumentsOf(Blocks, MaxNodes) \ {<<>>}
    /\ options \in {NoOptions} \cup {Options("undefined", x, "undefined") : x \in OptionValues}
    /\ sourceUrl = Undefined
    /\ markdown = NotRun
    /\ pc = "start"
    /\ schema = NotRun
    /\ rawObject = NotRun
    /\ ExtractorIdle /\ SanitizerIdle /\ BrowserIdle /\ HeapIdle

NextFallback == Convert

SpecFallback == InitFallback /\ [][NextFallback]_vars

\* The conversion of the whole tidied document and of its main content.
FullMarkdown == turndown(tidyHtml(html, OptionOn(options, "includeImages")), options, sourceUrl)
MainMarkdown ==
    turndown(extractMainHtml(tidyHtml(html, OptionOn(options, "includeImages"))),
             options, sourceUrl)
MainIsTooShort ==
    \/ Length(MainMarkdown) = 0
    \/ /\ 5 * Length(MainMarkdown) < Length(FullMarkdown)
       /\ Length(MainMarkdown) < FallbackLength

BaseUrl == <<"https://b.co", "/", "company", "/">>
\* "https://www.amazon.com/dp/ref=x"
AmazonUrl == <<"https://www.amazon.com", "/", "dp", "/ref=", "x">>
\* "x (x)": a relative URL with a space and parentheses
SpacedUrl == <<"x", " ", "(", "x", ")">>

Hrefs ==
    {<<"http://a.co", "/", "p">>, <<"mailto:", "x">>, <<"data:", "x">>,
     <<"/", "about">>, <<"img.jpg">>, <<"httpdocs", "/", "x">>, SpacedUrl, AmazonUrl}
Srcs ==
    {<<"http://a.co", "/", "p">>, <<"mailto:", "x">>, <<"data:", "x">>,
     <<"img.jpg">>, SpacedUrl}

Link(href) == Element("a", [k \in {"href"} |-> href], <<TextNode(1)>>)
Image(src) == Element("img", [k \in {"src", "alt"} |-> IF k = "src" THEN src ELSE <<"x">>], <<>>)
ImageWithoutSrc == Element("img", [k \in {"alt"} |-> <<"x">>], <<>>)

ConvertNodes ==
    {Link(h) : h \in Hrefs} \cup {Image(src) : src \in Srcs}
    \cup {Element("a", NoAttribs, <<TextNode(1)>>), ImageWithoutSrc, Image(<<>>),
          Element("figure", NoAttribs, <<Image(<<"img.jpg">>)>>),
          Element("picture", NoAttribs, <<Image(<<"img.jpg">>)>>),
          Element("a", [k \in {"href"} |-> <<"/", "about">>], <<Image(<<"img.jpg">>)>>)}

ConvertOptions ==
    {NoOptions,
     Options("true", "undefined", "undefined"), Options("false", "undefined", "undefined"),
     Options("undefined", "undefined", "undefined"), Options("undefined", "undefined", "true"),
     Options("true", "undefined", "true"), Options("true", "undefined", "false")}

InitConvert ==
    /\ html \in DocumentsOf(ConvertNodes, MaxNodes) \ {<<>>}
    /\ options \in ConvertOptions
    /\ sourceUrl \in {Undefined, Str(<<>>), Str(BaseUrl)}
    /\ markdown = NotRun
    /\ pc = "start"
    /\ schema = NotRun
    /\ rawObject = NotRun
    /\ ExtractorIdle /\ SanitizerIdle /\ BrowserIdle /\ HeapIdle

NextConvert == Convert

SpecConvert == InitConvert /\ [][NextConvert]_vars

\* The pieces of the markdown at every depth (a link's content included).
RECURSIVE AllPieces(_)
AllPieces(pieces) ==
    UNION {{pieces[i]} \cup (IF pieces[i].kind = "link" THEN AllPieces(pieces[i].content) ELSE {})
           : i \in DOMAIN pieces}

\* The elements of the document at every depth.
RECURSIVE AllElements(_)
AllElements(nodes) ==
    UNION {IF nodes[i].tag = "#text" THEN {}
           ELSE {nodes[i]} \cup AllElements(nodes[i].children) : i \in DOMAIN nodes}

UrlsEmitted(kind) == {piece.url : piece \in {q \in AllPieces(markdown) : q.kind = kind}}

\* C17: with cleanUrls enabled, every Amazon product URL of a link is cut at
\* its "/ref=" segment before it is emitted.
C17_AmazonUrlsCleaned ==
    (pc = "converted" /\ OptionOn(options, "cleanUrls")) =>
        \A u \in UrlsEmitted("link") :
            u[1] = "https://www.amazon.com" => \A i \in DOMAIN u : u[i] # "/ref="

\* The URL as written, apart from the escaping of parentheses and the removal
\* of whitespace.
AsWritten(u) == removeWhitespace(escapeParens(u))

\* C18: the href of a link is resolved against sourceUrl exactly when a
\* sourceUrl is provided and the href starts with neither "http" nor
\* "mailto:"; the src of an image exactly when a sourceUrl is provided and the
\* src starts with neither "http" nor "data:"; otherwise the URL is emitted
\* as written apart from parenthesis escaping and whitespace removal.
C18_ResolvedExactlyWhenRelative ==
    pc = "converted" =>
        \A e \in AllElements(html) :
            /\ (e.tag = "a" /\ getAttribute(e, "href") # <<>>) =>
                  LET href == getAttribute(e, "href")
                  IN  IF /\ sourceUrl # Undefined /\ sourceUrl # Str(<<>>)
                         /\ ~startsWith(href, "http") /\ ~startsWith(href, "mailto:")
                      THEN AsWritten(resolve(sourceUrl.s, href)) \in UrlsEmitted("link")
                      ELSE AsWritten(href) \in UrlsEmitted("link")
            /\ (e.tag = "img" /\ getAttribute(e, "src") # <<>>
                /\ OptionOn(options, "includeImages")) =>
                  LET src == getAttribute(e, "src")
                  IN  IF /\ sourceUrl # Undefined /\ sourceUrl # Str(<<>>)
                         /\ ~startsWith(src, "http") /\ ~startsWith(src, "data:")
                      THEN AsWritten(resolve(sourceUrl.s, src)) \in UrlsEmitted("image")
                      ELSE AsWritten(src) \in UrlsEmitted("image")

\* With the sourceUrl "https://b.co/company/", the link "/about" is emitted as
\* "https://b.co/about" and the only other link, "httpdocs/x", as written.
C18_Witness ==
    /\ pc = "converted"
    /\ sourceUrl = Str(BaseUrl)
    /\ html = <<Link(<<"/", "about">>), Link(<<"httpdocs", "/", "x">>)>>
    /\ UrlsEmitted("link") = {<<"https://b.co", "/", "about">>, <<"httpdocs", "/", "x">>}

\* C19: unless options.includeImages is true the markdown holds no image for
\* any document (img, picture and figure are removed); when it is true, every
\* img with a src yields an image reference with its alt and src, and an img
\* without a src yields nothing.
C19_ImagesOnlyWhenIncluded ==
    pc = "converted" =>
        IF ~(options.given /\ options.includeImages = "true")
        THEN UrlsEmitted("image") = {}
        ELSE /\ \A e \in AllElements(html) :
                   (e.tag = "img" /\ getAttribute(e, "src") # <<>>) =>
                      \E piece \in AllPieces(markdown) :
                          /\ piece.kind = "image"
                          /\ piece.alt = getAttribute(e, "alt")
                          /\ piece.url \in {AsWritten(getAttribute(e, "src")),
                                            AsWritten(resolve(BaseUrl, getAttribute(e, "src")))}
             /\ Cardinality({piece \in AllPieces(markdown) : piece.kind = "image"})
                   <= Cardinality({e \in AllElements(html) :
                                      e.tag = "img" /\ getAttribute(e, "src") # <<>>})

\* includeImages is true and the document is a figure with an image followed
\* by an img without src: the one image is emitted, the other yields nothing.
C19_Witness ==
    /\ pc = "converted"
    /\ OptionOn(options, "includeImages")
    /\ html = <<Element("figure", NoAttribs, <<Image(<<"img.jpg">>)>>), ImageWithoutSrc>>
    /\ sourceUrl = Undefined
    /\ markdown = <<ImagePiece(<<"x">>, <<"img.jpg">>)>>

(***************************************************************************)
(* The Browser class (src/src/browser.ts).  A method runs up to its await  *)
(* in one step and from the settled await to its end in another, so calls  *)
(* on one Browser interleave at their awaits.                              *)
(***************************************************************************)
\* Most calls made on the Browser in one behaviour.
MaxCalls == 4

AlreadyStarted == "Browser is already started. Call close() first if you want to restart."
NotStarted == "Browser not started. Call start() first."

\* What browserProvider.start() resolves with at its n-th invocation.
Handle(n) == [t |-> "browser", launch |-> n]

Call(op, status, error, launch) ==
    [op |-> op, status |-> status, error |-> error, launch |-> launch]

\* A page of the browser of the given launch, and how often page.close()
\* has been called on it.
Page(launch) == [launch |-> launch, closes |-> 0]

\* isStarted(): this.browser !== null
isStarted == browser # Null

InitBrowser ==
    /\ browser = Null
    /\ calls = <<>>
    /\ providerCalls = [start |-> 0, close |-> 0]
    /\ settled = <<>>
    /\ pages = <<>>
    /\ loading = <<>>
    /\ pc = "start"
    /\ schema = NotRun
    /\ rawObject = NotRun
    /\ ExtractorIdle /\ SanitizerIdle /\ ConverterIdle /\ HeapIdle

\* A call that settles in the step that makes it.
SettleAtOnce(op, status, error) ==
    /\ calls' = Append(calls, Call(op, status, error, 0))
    /\ settled' = Append(settled, Len(calls) + 1)

\* The pending call i settles.
Settle(i, status, error) ==
    /\ calls' = [calls EXCEPT ![i].status = status, ![i].error = error]
    /\ settled' = Append(settled, i)

IsPending(i, op) == calls[i].op = op /\ calls[i].status = "pending"

Idle == UNCHANGED <<pc, sanitizerVars, extractorVars, converterVars, heapVars>>

\* start() when this.browser is set: throws
StartWhenStarted ==
    /\ Len(calls) < MaxCalls
    /\ browser # Null
    /\ SettleAtOnce("start", "rejected", AlreadyStarted)
    /\ UNCHANGED <<browser, providerCalls>>
    /\ UNCHANGED <<pages, loading>>
    /\ Idle

\* start() when this.browser is null, up to `await this.browserProvider.start()`
StartInvokesProvider ==
    /\ Len(calls) < MaxCalls
    /\ browser = Null
    /\ providerCalls' = [providerCalls EXCEPT !.start = @ + 1]
    /\ calls' = Append(calls, Call("start", "pending", "", providerCalls.start + 1))
    /\ UNCHANGED <<browser, settled>>
    /\ UNCHANGED <<pages, loading>>
    /\ Idle

\* A start() that resumes without storing what the provider resolved with.
StartResumesForgetful(i) ==
    /\ IsPending(i, "start")
    /\ Settle(i, "fulfilled", "")
    /\ UNCHANGED <<browser, providerCalls>>
    /\ UNCHANGED <<pages, loading>>
    /\ Idle

\* this.browser = <what the provider resolved with>
StartResumes(i) ==
    /\ IsPending(i, "start")
    /\ browser' = Handle(calls[i].launch)
    /\ Settle(i, "fulfilled", "")
    /\ UNCHANGED providerCalls
    /\ UNCHANGED <<pages, loading>>
    /\ Idle

\* browserProvider.start() rejects: start() rejects with the provider's error
StartFails(i) ==
    /\ IsPending(i, "start")
    /\ Settle(i, "rejected", "launch failed")
    /\ UNCHANGED <<browser, providerCalls>>
    /\ UNCHANGED <<pages, loading>>
    /\ Idle

\* newPage() when this.browser is null: throws
NewPageWhenNotStarted ==
    /\ Len(calls) < MaxCalls
    /\ browser = Null
    /\ SettleAtOnce("newPage", "rejected", NotStarted)
    /\ UNCHANGED <<browser, providerCalls>>
    /\ UNCHANGED <<pages, loading>>
    /\ Idle

\* newPage() when started, up to `await this.browser.newPage()`
NewPageInvokesBrowser ==
    /\ Len(calls) < MaxCalls
    /\ browser # Null
    /\ calls' = Append(calls, Call("newPage", "pending", "", browser.launch))
    /\ UNCHANGED <<browser, providerCalls, settled>>
    /\ UNCHANGED <<pages, loading>>
    /\ Idle

\* return <the page this.browser.newPage() resolved with>
NewPageResumes(i) ==
    /\ IsPending(i, "newPage")
    /\ pages' = Append(pages, Page(calls[i].launch))
    /\ Settle(i, "fulfilled", "")
    /\ UNCHANGED <<browser, providerCalls, loading>>
    /\ Idle

\* close() when this.browser is null: nothing to do
CloseWhenNotStarted ==
    /\ Len(calls) < MaxCalls
    /\ browser = Null
    /\ SettleAtOnce("close", "fulfilled", "")
    /\ UNCHANGED <<browser, providerCalls>>
    /\ UNCHANGED <<pages, loading>>
    /\ Idle

\* close() when started, up to `await this.browserProvider.close()`
CloseInvokesProvider ==
    /\ Len(calls) < MaxCalls
    /\ browser # Null
    /\ providerCalls' = [providerCalls EXCEPT !.close = @ + 1]
    /\ calls' = Append(calls, Call("close", "pending", "", browser.launch))
    /\ UNCHANGED <<browser, settled>>
    /\ UNCHANGED <<pages, loading>>
    /\ Idle

\* this.browser = null
CloseResumes(i) ==
    /\ IsPending(i, "close")
    /\ browser' = Null
    /\ Settle(i, "fulfilled", "")
    /\ UNCHANGED providerCalls
    /\ UNCHANGED <<pages, loading>>
    /\ Idle

\* browserProvider.close() rejects: close() rejects, this.browser stays set
CloseFails(i) ==
    /\ IsPending(i, "close")
    /\ Settle(i, "rejected", "close failed")
    /\ UNCHANGED <<browser, providerCalls>>
    /\ UNCHANGED <<pages, loading>>
    /\ Idle

NextBrowser ==
    \/ StartWhenStarted
    \/ StartInvokesProvider
    \/ \E i \in DOMAIN calls : StartResumes(i)
    \/ \E i \in DOMAIN calls : StartFails(i)
    \/ NewPageWhenNotStarted
    \/ NewPageInvokesBrowser
    \/ \E i \in DOMAIN calls : NewPageResumes(i)
    \/ CloseWhenNotStarted
    \/ CloseInvokesProvider
    \/ \E i \in DOMAIN calls : CloseResumes(i)
    \/ \E i \in DOMAIN calls : CloseFails(i)

SpecBrowser == InitBrowser /\ [][NextBrowser]_vars

\* Call i ran to its end without an error.
Completed(i, op) == calls[i].op = op /\ calls[i].status = "fulfilled"

\* A start() has succeeded and no close() has completed since.
StartedByHistory ==
    \E k \in DOMAIN settled :
        /\ Completed(settled[k], "start")
        /\ \A j \in (k + 1)..Len(settled) : ~Completed(settled[j], "close")

\* The call made in this step, if one is made.
CallMade == Len(calls') = Len(calls) + 1
NewCall == calls'[Len(calls')]

LifecycleStep ==
    /\ (CallMade /\ NewCall.op = "start" /\ browser # Null) =>
          /\ NewCall.status = "rejected"
          /\ NewCall.error = AlreadyStarted
          /\ providerCalls' = providerCalls
          /\ browser' = browser
    /\ (CallMade /\ NewCall.op = "start" /\ browser = Null) =>
          /\ NewCall.status = "pending"
          /\ providerCalls'.start = providerCalls.start + 1
    /\ (CallMade /\ NewCall.op = "newPage") =>
          (NewCall.status = "rejected" /\ NewCall.error = NotStarted) <=> browser = Null
    /\ (CallMade /\ NewCall.op = "close" /\ browser = Null) =>
          /\ NewCall.status = "fulfilled"
          /\ providerCalls' = providerCalls
          /\ browser' = Null
    /\ \A i \in DOMAIN calls :
          (calls[i].status = "pending" /\ calls'[i].status = "fulfilled") =>
              /\ calls[i].op = "close" => browser' = Null
              /\ calls[i].op = "start" => browser' # Null

\* C20: isStarted() is true exactly when a start() has succeeded and no
\* close() has completed since; start() on a started Browser rejects with
\* "Browser is already started" without invoking the provider and leaves it
\* started; newPage() rejects with "Browser not started" unless started;
\* close() leaves the Browser not started (calling no provider method when it
\* was not started), and a start() made then invokes the provider and, when
\* the provider resolves, leaves the Browser started again.
C20_Lifecycle ==
    /\ [](isStarted <=> StartedByHistory)
    /\ [][LifecycleStep]_vars

\* start() succeeded, a second start() was rejected, close() completed, and
\* a third start() succeeded: the Browser is started again.
C20_Witness ==
    /\ Len(calls) = 4
    /\ settled = <<1, 2, 3, 4>>
    /\ Completed(1, "start")
    /\ calls[2] = Call("start", "rejected", AlreadyStarted, 0)
    /\ Completed(3, "close")
    /\ Completed(4, "start")
    /\ isStarted
    /\ providerCalls = [start |-> 2, close |-> 1]

(***************************************************************************)
(* Browser.loadPage (src/src/browser.ts).  Each call has a frame that      *)
(* records where it stands between its awaits.                             *)
(***************************************************************************)
\* Most calls made on the Browser where loadPage is among them.
MaxLoadCalls == 2

\* `Invalid URL provided: ${url}`; the url is kept in the call's frame.
InvalidUrl == "Invalid URL provided"

\* new URL(url) does not throw
IsValidUrl(url) == IsWellFormedUrl(url)

LoadUrls == {UrlString, PlainString}
\* options.waitTime; 1000 is the default
WaitTimes == {0, 1000}

Frame(at, url, page, failure) ==
    [at |-> at, url |-> url, page |-> page, failure |-> failure]

At(i, at) == i \in DOMAIN loading /\ calls[i].status = "pending" /\ loading[i].at = at

MayCall == Len(calls) < MaxLoadCalls

\* A loadPage that ensures the browser is started before it looks at the url.
LoadPageInvalidUrlAfterStart(url) ==
    /\ MayCall
    /\ ~IsValidUrl(url)
    /\ providerCalls' = [providerCalls EXCEPT !.start = @ + 1]
    /\ SettleAtOnce("loadPage", "rejected", InvalidUrl)
    /\ loading' = loading @@ (Len(calls) + 1 :> Frame("done", url, 0, InvalidUrl))
    /\ UNCHANGED <<browser, pages>>
    /\ Idle

\* try { new URL(url) } catch { throw new Error(`Invalid URL provided: ${url}`) }
LoadPageInvalidUrl(url) ==
    /\ MayCall
    /\ ~IsValidUrl(url)
    /\ SettleAtOnce("loadPage", "rejected", InvalidUrl)
    /\ loading' = loading @@ (Len(calls) + 1 :> Frame("done", url, 0, InvalidUrl))
    /\ UNCHANGED <<browser, providerCalls, pages>>
    /\ Idle

\* if (!this.browser) await this.start(): start() finds this.browser null and
\* runs up to its `await this.browserProvider.start()`
LoadPageStarts(url) ==
    /\ MayCall
    /\ IsValidUrl(url)
    /\ browser = Null
    /\ providerCalls' = [providerCalls EXCEPT !.start = @ + 1]
    /\ calls' = Append(calls, Call("loadPage", "pending", "", providerCalls.start + 1))
    /\ loading' = loading @@ (Len(calls) + 1 :> Frame("starting", url, 0, ""))
    /\ UNCHANGED <<browser, settled, pages>>
    /\ Idle

\* this.browser is set: const page = await this.newPage(), up to
\* `await this.browser.newPage()`
LoadPageOpens(url) ==
    /\ MayCall
    /\ IsValidUrl(url)
    /\ browser # Null
    /\ calls' = Append(calls, Call("loadPage", "pending", "", browser.launch))
    /\ loading' = loading @@ (Len(calls) + 1 :> Frame("opening", url, 0, ""))
    /\ UNCHANGED <<browser, providerCalls, settled, pages>>
    /\ Idle

\* start() resumes: this.browser = <what the provider resolved with>
LoadStartResumes(i) ==
    /\ At(i, "starting")
    /\ browser' = Handle(calls[i].launch)
    /\ loading' = [loading EXCEPT ![i].at = "started"]
    /\ UNCHANGED <<calls, providerCalls, settled, pages>>
    /\ Idle

\* browserProvider.start() rejects: loadPage rejects with the provider's error
LoadStartFails(i) ==
    /\ At(i, "starting")
    /\ Settle(i, "rejected", "launch failed")
    /\ loading' = [loading EXCEPT ![i].at = "done", ![i].failure = "launch failed"]
    /\ UNCHANGED <<browser, providerCalls, pages>>
    /\ Idle

\* loadPage resumes after `await this.start()`: this.newPage() throws when
\* this.browser is null by now, and else runs up to its await
LoadNewPage(i) ==
    /\ At(i, "started")
    /\ IF browser = Null
       THEN /\ Settle(i, "rejected", NotStarted)
            /\ loading' = [loading EXCEPT ![i].at = "done", ![i].failure = NotStarted]
       ELSE /\ calls' = [calls EXCEPT ![i].launch = browser.launch]
            /\ loading' = [loading EXCEPT ![i].at = "opening"]
            /\ UNCHANGED settled
    /\ UNCHANGED <<browser, providerCalls, pages>>
    /\ Idle

\* the page is there: page.setDefaultTimeout(timeout), then up to
\* `await page.goto(url, ...)`
LoadNewPageResumes(i) ==
    /\ At(i, "opening")
    /\ pages' = Append(pages, Page(calls[i].launch))
    /\ loading' = [loading EXCEPT ![i].at = "navigating", ![i].page = Len(pages) + 1]
    /\ UNCHANGED <<browser, calls, providerCalls, settled>>
    /\ Idle

\* this.browser.newPage() rejects: no page, loadPage rejects
LoadNewPageFails(i) ==
    /\ At(i, "opening")
    /\ Settle(i, "rejected", "newPage failed")
    /\ loading' = [loading EXCEPT ![i].at = "done", ![i].failure = "newPage failed"]
    /\ UNCHANGED <<browser, providerCalls, pages>>
    /\ Idle

\* page.goto resolved: if (waitTime > 0) await page.waitForTimeout(waitTime),
\* else on to `await page.content()`.  options.waitTime is read here only.
LoadGotoResumes(i, waitTime) ==
    /\ At(i, "navigating")
    /\ loading' = [loading EXCEPT ![i].at = IF waitTime > 0 THEN "waiting" ELSE "reading"]
    /\ UNCHANGED <<browser, calls, providerCalls, settled, pages>>
    /\ Idle

\* page.waitForTimeout resolved: on to `await page.content()`
LoadWaitResumes(i) ==
    /\ At(i, "waiting")
    /\ loading' = [loading EXCEPT ![i].at = "reading"]
    /\ UNCHANGED <<browser, calls, providerCalls, settled, pages>>
    /\ Idle

\* A finally block that leaves the page open.
ClosePageSkipped(i, failure) ==
    /\ loading' = [loading EXCEPT ![i].at = "closing", ![i].failure = failure]
    /\ UNCHANGED pages

\* finally { await page.close() }, up to the await
ClosePage(i, failure) ==
    /\ pages' = [pages EXCEPT ![loading[i].page].closes = @ + 1]
    /\ loading' = [loading EXCEPT ![i].at = "closing", ![i].failure = failure]

\* page.content() resolved: return { html, url } goes through the finally block
LoadContentResumes(i) ==
    /\ At(i, "reading")
    /\ ClosePage(i, "")
    /\ UNCHANGED <<browser, calls, providerCalls, settled>>
    /\ Idle

StepError(at) ==
    CASE at = "navigating" -> "Navigation failed"
      [] at = "waiting" -> "wait failed"
      [] at = "reading" -> "content failed"

\* page.goto, page.waitForTimeout or page.content rejects: the error goes
\* through the finally block
LoadStepFails(i) ==
    /\ \E at \in {"navigating", "waiting", "reading"} : At(i, at)
    /\ ClosePage(i, StepError(loading[i].at))
    /\ UNCHANGED <<browser, calls, providerCalls, settled>>
    /\ Idle

\* page.close() resolved: loadPage settles as its try block ended
LoadCloseResumes(i) ==
    /\ At(i, "closing")
    /\ IF loading[i].failure = ""
       THEN Settle(i, "fulfilled", "")
       ELSE Settle(i, "rejected", loading[i].failure)
    /\ loading' = [loading EXCEPT ![i].at = "done"]
    /\ UNCHANGED <<browser, providerCalls, pages>>
    /\ Idle

\* page.close() rejects: its error is what loadPage rejects with
LoadCloseFails(i) ==
    /\ At(i, "closing")
    /\ Settle(i, "rejected", "page close failed")
    /\ loading' = [loading EXCEPT ![i].at = "done"]
    /\ UNCHANGED <<browser, providerCalls, pages>>
    /\ Idle

LoadPage ==
    \/ \E url \in LoadUrls : LoadPageInvalidUrl(url)
    \/ \E url \in LoadUrls : LoadPageStarts(url)
    \/ \E url \in LoadUrls : LoadPageOpens(url)
    \/ \E i \in DOMAIN calls : LoadStartResumes(i)
    \/ \E i \in DOMAIN calls : LoadStartFails(i)
    \/ \E i \in DOMAIN calls : LoadNewPage(i)
    \/ \E i \in DOMAIN calls : LoadNewPageResumes(i)
    \/ \E i \in DOMAIN calls : LoadNewPageFails(i)
    \/ \E i \in DOMAIN calls, waitTime \in WaitTimes : LoadGotoResumes(i, waitTime)
    \/ \E i \in DOMAIN calls : LoadWaitResumes(i)
    \/ \E i \in DOMAIN calls : LoadContentResumes(i)
    \/ \E i \in DOMAIN calls : LoadStepFails(i)
    \/ \E i \in DOMAIN calls : LoadCloseResumes(i)
    \/ \E i \in DOMAIN calls : LoadCloseFails(i)

\* start() and close() calls made while loadPage calls are under way.
StartOrClose ==
    \/ MayCall /\ StartWhenStarted
    \/ MayCall /\ StartInvokesProvider
    \/ \E i \in DOMAIN calls : StartResumes(i)
    \/ \E i \in DOMAIN calls : StartFails(i)
    \/ MayCall /\ CloseWhenNotStarted
    \/ MayCall /\ CloseInvokesProvider
    \/ \E i \in DOMAIN calls : CloseResumes(i)
    \/ \E i \in DOMAIN calls : CloseFails(i)

NextLoadPage == StartOrClose \/ LoadPage

SpecLoadPage == InitBrowser /\ [][NextLoadPage]_vars

\* The loadPage calls that opened a page, and the page of each.
Opened == {i \in DOMAIN loading : loading[i].page # 0}
PageOf(i) == pages[loading[i].page]
HasSettled(i) == calls[i].status # "pending"
NoCloseCalled == \A j \in DOMAIN calls : calls[j].op # "close"

HtmlUrls == {UrlString, <<"https://b.co", "x">>, <<"mailto:", "x">>, PlainString, EmptyString}

\* const browser = new Browser(browserConfig); browser.loadPage(url, options)
\* up to its first await
HtmlLoadPage ==
    /\ pc = "start"
    /\ calls = <<>>
    /\ \E url \in HtmlUrls : LoadPageInvalidUrl(url) \/ LoadPageStarts(url)

\* browser.loadPage goes on
HtmlLoadPageStep ==
    /\ pc = "start"
    /\ \/ LoadStartResumes(1)
       \/ LoadStartFails(1)
       \/ LoadNewPage(1)
       \/ LoadNewPageResumes(1)
       \/ LoadNewPageFails(1)
       \/ \E waitTime \in WaitTimes : LoadGotoResumes(1, waitTime)
       \/ LoadWaitResumes(1)
       \/ LoadContentResumes(1)
       \/ LoadStepFails(1)
       \/ LoadCloseResumes(1)
       \/ LoadCloseFails(1)

\* finally { await browser.close() }, up to close()'s await if it has one
HtmlFinally ==
    /\ pc = "start"
    /\ Len(calls) = 1
    /\ calls[1].status # "pending"
    /\ CloseWhenNotStarted \/ CloseInvokesProvider

\* browser.close() goes on
HtmlCloseStep ==
    /\ pc = "start"
    /\ Len(calls) = 2
    /\ CloseResumes(2) \/ CloseFails(2)

\* A loadHtmlFromUrl that settles as soon as its loadPage has.
HtmlSettlesWithoutClose ==
    /\ pc = "start"
    /\ Len(calls) >= 1
    /\ calls[1].status # "pending"
    /\ pc' = "done"
    /\ UNCHANGED <<sanitizerVars, extractorVars, converterVars, browserVars, heapVars>>

\* browser.close() has settled: loadHtmlFromUrl settles
HtmlSettles ==
    /\ pc = "start"
    /\ Len(calls) = 2
    /\ calls[2].status # "pending"
    /\ pc' = "done"
    /\ UNCHANGED <<sanitizerVars, extractorVars, converterVars, browserVars, heapVars>>

NextLoadHtml ==
    \/ HtmlLoadPage
    \/ HtmlLoadPageStep
    \/ HtmlFinally
    \/ HtmlCloseStep
    \/ HtmlSettles

SpecLoadHtml == InitBrowser /\ [][NextLoadHtml]_vars

\* browserProvider.start() was invoked and resolved with a browser.
ProviderBrowserStarted ==
    /\ calls # <<>>
    /\ calls[1].op = "loadPage"
    /\ providerCalls.start = 1
    /\ loading[1].at # "starting"
    /\ calls[1].error # "launch failed"

\* C22: when loadHtmlFromUrl settles, whether its loadPage resolved or
\* rejected, browserProvider.close() has been called once if the provider
\* had started a browser, and not at all otherwise.
C22_BrowserClosedBeforeSettling ==
    pc = "done" =>
        /\ ProviderBrowserStarted => providerCalls.close = 1
        /\ ~ProviderBrowserStarted => providerCalls.close = 0

\* loadHtmlFromUrl has settled after its loadPage rejected with the
\* navigation error: the provider's browser was started and closed.
C22_Witness ==
    /\ pc = "done"
    /\ calls[1] = Call("loadPage", "rejected", "Navigation failed", 1)
    /\ calls[2] = Call("close", "fulfilled", "", 1)
    /\ providerCalls = [start |-> 1, close |-> 1]
    /\ ~isStarted

(***************************************************************************)
(* The prompt (generateExtractionPrompt, truncateContent in                *)
(* src/src/extractors.ts) and extract (src/src/index.ts).  A prompt is     *)
(* the template with what was put in its slots; its length is the length   *)
(* of the template's fixed text plus the lengths of the slots.             *)
(***************************************************************************)
\* Longest content drawn, in characters.
MaxContent == 4
\* How far around the length of the full prompt the token limits are
\* drawn, in characters.
MaxExcess == 12

\* The fixed text of the template without and with the extraction context,
\* and the default task, in characters.
TemplateLength == 549
ContextTemplateLength == 894
DefaultTaskLength == 64

Formats == {"html", "markdown", "txt"}
FormatLength(format) ==
    CASE format = "html" -> 4
      [] format = "markdown" -> 8
      [] format = "txt" -> 3

DefaultTask == Str(<<"Please extract structured information from the provided content.">>)
TaskLength(task) == IF task = DefaultTask THEN DefaultTaskLength ELSE Len(task.s)

\* An extraction context, with the text JSON.stringify(context, null, 2)
\* gives for it.
Context(json) == [t |-> "object", json |-> json]

generateExtractionPrompt(format, content, customPrompt, extractionContext) ==
    [format |-> format,
     content |-> content,
     extractionTask |-> IF Provided(customPrompt) THEN customPrompt ELSE DefaultTask,
     extractionContext |-> extractionContext]

\* fullPrompt.length
PromptLength(p) ==
    (IF p.extractionContext # Undefined
     THEN ContextTemplateLength + Len(p.extractionContext.json)
     ELSE TemplateLength)
    + FormatLength(p.format) + Len(p.content) + TaskLength(p.extractionTask)

\* str.slice(0, end): a negative end counts from the end of the string
slice(str, end) ==
    LET to == IF end < 0
              THEN (IF Len(str) + end < 0 THEN 0 ELSE Len(str) + end)
              ELSE (IF end > Len(str) THEN Len(str) ELSE end)
    IN  SubSeq(str, 1, to)

truncateContent(format, content, customPrompt, extractionContext, maxTokens) ==
    LET maxChars == maxTokens * 4
        fullPrompt == generateExtractionPrompt(format, content, customPrompt, extractionContext)
    IN  IF PromptLength(fullPrompt) <= maxChars
        THEN content
        ELSE LET excessChars == PromptLength(fullPrompt) - maxChars
             IN  slice(content, Len(content) - excessChars)

\* The markdown as the string htmlToMarkdown returns.
RECURSIVE markdownText(_)
markdownText(pieces) ==
    IF pieces = <<>> THEN <<>>
    ELSE LET piece == Head(pieces)
         IN  (CASE piece.kind = "text" -> [i \in 1..piece.length |-> "t"]
                [] piece.kind = "link" ->
                     <<"[">> \o markdownText(piece.content) \o <<"]", "(">> \o piece.url \o <<")">>
                [] piece.kind = "image" ->
                     <<"!", "[">> \o piece.alt \o <<"]", "(">> \o piece.url \o <<")">>)
             \o markdownText(Tail(pieces))

Contents == StringsOver({"a", "b"}, MaxContent)
CustomPrompts == {Undefined, Str(<<>>), Str(<<"q">>)}
Contexts == {Undefined, Context(<<"{", "}">>)}

\* Token limits under which the prompt of the given length fits, fits
\* exactly, and exceeds the limit by up to MaxExcess characters and more.
TokenLimits(fullLength) ==
    {0} \cup {(fullLength + d) \div 4 : d \in (0 - MaxExcess)..MaxExcess}

\* extract's arguments: format TXT or MARKDOWN with the content as a string
TextRequest(format, content, customPrompt, extractionContext, maxInputTokens, apiKey) ==
    [format |-> format, content |-> content, sourceUrl |-> Undefined,
     htmlExtractionOptions |-> NoOptions, prompt |-> customPrompt,
     extractionContext |-> extractionContext, maxInputTokens |-> maxInputTokens,
     apiKey |-> apiKey]

\* extract's arguments: format HTML with the content as a document
HtmlRequest(document, opts, source, maxInputTokens) ==
    [format |-> "html", content |-> document, sourceUrl |-> source,
     htmlExtractionOptions |-> opts, prompt |-> Undefined,
     extractionContext |-> Undefined, maxInputTokens |-> maxInputTokens,
     apiKey |-> "key"]

HtmlContents ==
    {<<TextNode(3)>>, <<Link(<<"/", "about">>)>>, <<TextNode(2), Image(<<"img.jpg">>)>>}

\* The content extract hands to extractWithLLM.
ContentOf(req) ==
    IF req.format = "html"
    THEN markdownText(htmlToMarkdown(req.content, req.htmlExtractionOptions, req.sourceUrl))
    ELSE req.content

\* formatToUse: converted HTML is announced as markdown
FormatToUse(req) == IF req.format = "html" THEN "markdown" ELSE req.format

FullLength(req) ==
    PromptLength(generateExtractionPrompt(FormatToUse(req), ContentOf(req),
                                          req.prompt, req.extractionContext))

MaxInputTokens(req) == {Undefined} \cup {Num(n) : n \in TokenLimits(FullLength(req))}

TextRequests ==
    UNION {{[req EXCEPT !.maxInputTokens = m] : m \in MaxInputTokens(req)} :
           req \in {TextRequest(format, content, customPrompt, extractionContext, Undefined, apiKey) :
                       format \in {"markdown", "txt"}, content \in Contents,
                       customPrompt \in {Undefined, Str(<<"q">>)},
                       extractionContext \in Contexts, apiKey \in {"", "key"}}}

HtmlRequests ==
    UNION {{[req EXCEPT !.maxInputTokens = m] : m \in MaxInputTokens(req)} :
           req \in {HtmlRequest(document, opts, source, Undefined) :
                       document \in HtmlContents,
                       opts \in {NoOptions, Options("true", "undefined", "undefined")},
                       source \in {Undefined, Str(BaseUrl)}}}

InitProcess ==
    /\ request \in TextRequests \/ request \in HtmlRequests
    /\ converted = NotRun
    /\ truncated = NotRun
    /\ prompt = NotRun
    /\ extractResult = NotRun
    /\ response = NotRun
    /\ extracted = NotRun
    /\ fixedData = NotRun
    /\ outcome = NotRun
    /\ pc = "start"
    /\ schema = NotRun
    /\ rawObject = NotRun
    /\ SanitizerIdle /\ ConverterIdle /\ BrowserIdle /\ HeapIdle

ExtractorResult(processedContent) == [kind |-> "returned", processedContent |-> processedContent]

\* extract up to the await in extractWithLLM: the checks of its arguments,
\* the conversion, the truncation and the prompt
ExtractInvokes ==
    /\ pc = "start"
    /\ IF request.apiKey = ""
       THEN /\ extractResult' = Thrown("API key is required")
            /\ pc' = "done"
            /\ UNCHANGED <<converted, truncated, prompt>>
       ELSE IF request.format = "html" /\ ~Provided(request.sourceUrl)
       THEN /\ extractResult' = Thrown("sourceUrl is required when format is HTML")
            /\ pc' = "done"
            /\ UNCHANGED <<converted, truncated, prompt>>
       ELSE LET content == ContentOf(request)
                maxInputTokens == request.maxInputTokens
                truncatedContent ==
                    IF maxInputTokens # Undefined /\ maxInputTokens.n # 0
                    THEN truncateContent(FormatToUse(request), content, request.prompt,
                                         request.extractionContext, maxInputTokens.n)
                    ELSE content
            IN  /\ converted' = content
                /\ truncated' = truncatedContent
                /\ prompt' = generateExtractionPrompt(FormatToUse(request), truncatedContent,
                                                      request.prompt, request.extractionContext)
                /\ pc' = "awaiting"
                /\ UNCHANGED extractResult
    /\ UNCHANGED <<request, response, extracted, fixedData, outcome>>
    /\ UNCHANGED <<sanitizerVars, converterVars, browserVars, heapVars>>

\* extractWithLLM settles: extract returns { data, processedContent: content,
\* usage } or throws what extractWithLLM threw
ExtractResumes ==
    /\ pc = "awaiting"
    /\ \E ok \in BOOLEAN :
          extractResult' = IF ok THEN ExtractorResult(converted)
                           ELSE Thrown("extractWithLLM rejected")
    /\ pc' = "done"
    /\ UNCHANGED <<request, converted, truncated, prompt>>
    /\ UNCHANGED <<response, extracted, fixedData, outcome>>
    /\ UNCHANGED <<sanitizerVars, converterVars, browserVars, heapVars>>

NextProcess == ExtractInvokes \/ ExtractResumes

SpecProcess == InitProcess /\ [][NextProcess]_vars

\* C23: the processedContent that extract returns is the content that was
\* placed in the prompt sent to the language model, for every format and
\* every combination of options, maxInputTokens included.
C23_ProcessedContentIsPromptContent ==
    (pc = "done" /\ extractResult.kind = "returned") =>
        extractResult.processedContent = prompt.content

(***************************************************************************)
(* The sanitizer again: absent properties, failure containment and the     *)
(* Optional schema at the root.                                            *)
(***************************************************************************)
\* The input is an object without the property "a" and with a valid "b".
AbsentCase ==
    /\ ObjectCase
    /\ "a" \notin DOMAIN rawObject.fields
    /\ "b" \in DOMAIN rawObject.fields
    /\ Validates(schema.shape[2][2], rawObject.fields["b"])

\* C24 as stated: a declared property whose schema is Optional or Nullable
\* and that the input does not own is not synthesized, and the object is
\* returned when nothing else is wrong with it.
C24_AbsentNotRequiredSkipped ==
    (AbsentCase /\ IsWrapper(schema.shape[1][2])) =>
        (sanitized # Null /\ "a" \notin DOMAIN sanitized.fields)

\* C24, amended: an absent declared property is never synthesized; the object
\* is returned exactly when the property's schema accepts undefined (an
\* Optional, also under Nullable), and is UNSANITIZABLE when the property is
\* Nullable only, as when it is required.
C24_AbsentSkippedWhenOptional ==
    AbsentCase =>
        /\ sanitized # Null => "a" \notin DOMAIN sanitized.fields
        /\ sanitized # Null <=> Validates(schema.shape[1][2], Undefined)

\* An object without its Nullable property "a": UNSANITIZABLE.
C24_Witness ==
    /\ AbsentCase
    /\ schema.shape[1][2].typeName = "ZodNullable"
    /\ ~Validates(schema.shape[1][2], Undefined)
    /\ sanitized = Null

\* The value v fails against schema s with no Optional, Nullable or Array
\* element boundary between the failure and s: s is no wrapper, and v has
\* the wrong kind, or is an object with a property that is missing (and
\* needed) or fails in this way itself.
RECURSIVE Uncontained(_, _)
Uncontained(s, v) ==
    CASE IsWrapper(s) -> FALSE
      [] s.typeName = "ZodObject" ->
            \/ v.t # "object"
            \/ \E i \in DOMAIN s.shape :
                  IF s.shape[i][1] \in DOMAIN v.fields
                  THEN Uncontained(s.shape[i][2], v.fields[s.shape[i][1]])
                  ELSE ~Validates(s.shape[i][2], Undefined)
      [] s.typeName = "ZodArray" -> v.t # "array"
      [] OTHER -> ~Validates(s, v)

\* The property "a" is present with a value that fails under the schema
\* inside its wrapper, and the sibling "b" is valid.
ContainedAt(wrapper) ==
    /\ ObjectCase
    /\ schema.shape[1][2].typeName = wrapper
    /\ "a" \in DOMAIN rawObject.fields
    /\ rawObject.fields["a"] \notin {Null, Undefined}
    /\ safeSanitizedParser(schema.shape[1][2].innerType, rawObject.fields["a"]) = Null
    /\ "b" \in DOMAIN rawObject.fields
    /\ Validates(schema.shape[2][2], rawObject.fields["b"])

\* C25: a failure inside the value of an Optional property, a Nullable
\* property or an Array element is contained there: the enclosing object or
\* array is returned with the property omitted, set to null, or the element
\* dropped; the result is UNSANITIZABLE only when no such boundary lies
\* between the failure and the root (under a Nullable root, null is the
\* contained value).
C25_FailureContained ==
    /\ ContainedAt("ZodOptional") =>
          (sanitized # Null /\ "a" \notin DOMAIN sanitized.fields)
    /\ ContainedAt("ZodNullable") =>
          (sanitized # Null /\ sanitized.fields["a"] = Null)
    /\ (ArrayCase /\ ~IsWrapper(schema.type)) =>
          (sanitized # Null /\ sanitized.items = Survivors(schema.type, rawObject.items))
    /\ (Sanitized /\ sanitized = Null /\ schema.typeName # "ZodNullable") =>
          Uncontained(schema, rawObject)

\* C26: under an Optional schema safeSanitizedParser never yields the failure
\* sentinel: for every input, null included, it returns the inner schema's
\* sanitized result when that succeeds and undefined otherwise (null comes
\* back only where null is a value of the inner schema).
C26_OptionalNeverFails ==
    (Sanitized /\ schema.typeName = "ZodOptional") =>
        LET inner == safeSanitizedParser(schema.innerType, rawObject)
        IN  /\ sanitized = Null => Validates(schema.innerType, Null)
            /\ inner # Null => sanitized = inner
            /\ (inner = Null /\ ~Validates(schema.innerType, Null)) => sanitized = Undefined


(***************************************************************************)
(* transformSchemaForLLM on objects with identity.  The heap is the list   *)
(* of the objects made so far and a reference is an index into it: a _def  *)
(* object, the array of checks of a string, the shape of an object.  A     *)
(* schema is known by its _def, which the ZodType constructor stores as    *)
(* given.  A write into an object that the input can reach would show in   *)
(* the heap as it was before the call.                                     *)
(***************************************************************************)
\* A new object: an object literal, a spread, the result of filter.
alloc(h, object) == [heap |-> Append(h, object), at |-> Len(h) + 1]

\* The schema builders of zod (z.string().url(), z.object({...}), ...): the
\* children are built first, then the _def that refers to them.
RECURSIVE store(_, _)
RECURSIVE storeShape(_, _, _)
store(h, s) ==
    CASE s.typeName = "ZodString" ->
            LET checks == alloc(h, [items |-> s.checks])
            IN  alloc(checks.heap, [typeName |-> "ZodString", checks |-> checks.at,
                                    description |-> s.description])
      [] s.typeName = "ZodNumber" -> alloc(h, s)
      [] s.typeName = "ZodObject" ->
            LET shape == storeShape(h, s.shape, <<>>)
            IN  alloc(shape.heap, [typeName |-> "ZodObject", shape |-> shape.at,
                                   description |-> s.description])
      [] s.typeName = "ZodArray" ->
            LET type == store(h, s.type)
            IN  alloc(type.heap, [typeName |-> "ZodArray", type |-> type.at,
                                  description |-> s.description])
      [] s.typeName \in {"ZodOptional", "ZodNullable"} ->
            LET innerType == store(h, s.innerType)
            IN  alloc(innerType.heap, [typeName |-> s.typeName,
                                       innerType |-> innerType.at,
                                       description |-> s.description])
storeShape(h, shape, entries) ==
    IF shape = <<>> THEN alloc(h, [entries |-> entries])
    ELSE LET property == store(h, Head(shape)[2])
         IN  storeShape(property.heap, Tail(shape),
                        Append(entries, <<Head(shape)[1], property.at>>))

\* The schema that a reference stands for: what parse and isUrlSchema see
\* when they follow _def, _def.checks, shape, element and unwrap().
RECURSIVE load(_, _)
load(h, at) ==
    LET def == h[at]
    IN  CASE def.typeName = "ZodString" -> ZString(h[def.checks].items, def.description)
          [] def.typeName = "ZodNumber" -> ZNumber(def.description)
          [] def.typeName = "ZodObject" ->
                LET entries == h[def.shape].entries
                IN  ZObject([i \in DOMAIN entries |->
                                <<entries[i][1], load(h, entries[i][2])>>],
                            def.description)
          [] def.typeName = "ZodArray" -> ZArray(load(h, def.type), def.description)
          [] def.typeName = "ZodOptional" ->
                ZOptional(load(h, def.innerType), def.description)
          [] def.typeName = "ZodNullable" ->
                ZNullable(load(h, def.innerType), def.description)

\* object.field = value
write(h, at, field, value) == [h EXCEPT ![at] = [@ EXCEPT ![field] = value]]

\* const originalDef = schema._def: the definition itself, not a copy of it.
aliasDef(h, at) == [heap |-> h, at |-> at]

\* const originalDef = { ...schema._def }
copyDef(h, at) == alloc(h, h[at])

\* new z.ZodX({ ...originalDef, field: value, typeName }): one more object
construct(h, originalDef, typeName, field, value) ==
    alloc(h, [h[originalDef] EXCEPT ![field] = value, !["typeName"] = typeName])

RECURSIVE transformSchemaOnHeap(_, _)
RECURSIVE transformShape(_, _, _)
transformSchemaOnHeap(h, at) ==
    LET schemaType == h[at].typeName
    IN  IF isUrlSchema(load(h, at))
        THEN LET originalDef == copyDef(h, at)
                 checks == originalDef.heap[originalDef.at].checks
                 filtered == alloc(originalDef.heap,
                                   [items |-> SelectSeq(originalDef.heap[checks].items,
                                                        NotUrlCheck)])
                 assigned == write(filtered.heap, originalDef.at, "checks", filtered.at)
             IN  construct(assigned, originalDef.at, "ZodString", "checks", filtered.at)
        ELSE IF schemaType = "ZodObject"
        THEN LET originalDef == copyDef(h, at)
                 newShape == alloc(originalDef.heap, [entries |-> <<>>])
                 filled == transformShape(newShape.heap, h[h[at].shape].entries,
                                          newShape.at)
             IN  construct(filled, originalDef.at, "ZodObject", "shape", newShape.at)
        ELSE IF schemaType = "ZodArray"
        THEN LET originalDef == copyDef(h, at)
                 transformedElement ==
                     transformSchemaOnHeap(originalDef.heap, h[at].type)
             IN  construct(transformedElement.heap, originalDef.at, "ZodArray",
                           "type", transformedElement.at)
        ELSE IF schemaType \in {"ZodOptional", "ZodNullable"}
        THEN LET originalDef == copyDef(h, at)
                 transformedInner ==
                     transformSchemaOnHeap(originalDef.heap, h[at].innerType)
             IN  construct(transformedInner.heap, originalDef.at, schemaType,
                           "innerType", transformedInner.at)
        ELSE [heap |-> h, at |-> at]
\* newShape[key] = transformSchemaForLLM(propertySchema), entry by entry
transformShape(h, entries, newShape) ==
    IF entries = <<>> THEN h
    ELSE LET property == transformSchemaOnHeap(h, Head(entries)[2])
         IN  transformShape(
                 write(property.heap, newShape, "entries",
                       Append(property.heap[newShape].entries,
                              <<Head(entries)[1], property.at>>)),
                 Tail(entries), newShape)

\* The references to schemas (to their _def) in a heap.
Schemas(h) == {at \in DOMAIN h : "typeName" \in DOMAIN h[at]}

\* A schema tree, and a second schema built over one of its nodes:
\* const other = z.array(node).
InitShared ==
    /\ schema \in TransformSchemas(TransformDepth)
    /\ rawObject = NotRun
    /\ LET built == store(<<>>, schema)
       IN  \E node \in Schemas(built.heap) :
               LET other == alloc(built.heap,
                                  [typeName |-> "ZodArray", type |-> node,
                                   description |-> NoDescription])
               IN  /\ heap = other.heap
                   /\ refs = [schema |-> built.at, other |-> other.at, result |-> 0]
    /\ original = heap
    /\ pc = "start"
    /\ SanitizerIdle /\ ExtractorIdle /\ ConverterIdle /\ BrowserIdle

\* const llmSchema = transformSchemaForLLM(schema)
TransformShared ==
    /\ pc = "start"
    /\ LET transformed == transformSchemaOnHeap(heap, refs.schema)
       IN  /\ heap' = transformed.heap
           /\ refs' = [refs EXCEPT !.result = transformed.at]
    /\ original' = heap
    /\ pc' = "transformed"
    /\ UNCHANGED <<sanitizerVars, extractorVars, converterVars, browserVars>>

NextShared == TransformShared

SpecShared == InitShared /\ [][NextShared]_vars

\* C27: transformSchemaForLLM never mutates its input: after the call every
\* object that existed before it is as it was, so the original schema and a
\* schema that shares a subtree with it are the same trees as before, with
\* the same checks on every url string node, and those nodes still reject
\* a string that is not a URL.
C27_InputNotMutated ==
    pc = "transformed" =>
        /\ \A at \in DOMAIN original : heap[at] = original[at]
        /\ load(heap, refs.schema) = load(original, refs.schema)
        /\ load(heap, refs.other) = load(original, refs.other)
        /\ \A at \in Schemas(original) :
               isUrlSchema(load(original, at)) =>
                   /\ isUrlSchema(load(heap, at))
                   /\ parse(load(heap, at), Str(PlainString)) = Throw

\* The other schema is an array of a url string of the tree, and the result
\* is a new tree that accepts the string the original rejects.
C27_Witness ==
    /\ pc = "transformed"
    /\ refs.other # refs.schema
    /\ isUrlSchema(load(original, heap[refs.other].type))
    /\ heap[refs.schema].typeName = "ZodObject"
    /\ refs.result # refs.schema
    /\ parse(load(heap, heap[refs.other].type), Str(PlainString)) = Throw
    /\ parse(load(heap, refs.result),
             Obj([k \in {"a", "b"} |-> Str(PlainString)])) # Throw

(***************************************************************************)
(* truncateContent called on its own.                                      *)
(***************************************************************************)
\* The arguments of one call of truncateContent.
TruncateArguments(format, content, customPrompt, extractionContext) ==
    [format |-> format, content |-> content, prompt |-> customPrompt,
     extractionContext |-> extractionContext, maxTokens |-> 0]

InitTruncate ==
    /\ \E args \in {TruncateArguments(format, content, customPrompt, extractionContext) :
                       format \in Formats, content \in Contents,
                       customPrompt \in CustomPrompts, extractionContext \in Contexts} :
           LET fullLength == PromptLength(generateExtractionPrompt(
                                 args.format, args.content, args.prompt,
                                 args.extractionContext))
           IN  \E maxTokens \in TokenLimits(fullLength) :
                   request = [args EXCEPT !.maxTokens = maxTokens]
    /\ converted = NotRun
    /\ truncated = NotRun
    /\ prompt = NotRun
    /\ extractResult = NotRun
    /\ response = NotRun
    /\ extracted = NotRun
    /\ fixedData = NotRun
    /\ outcome = NotRun
    /\ pc = "start"
    /\ schema = NotRun
    /\ rawObject = NotRun
    /\ SanitizerIdle /\ ConverterIdle /\ BrowserIdle /\ HeapIdle

\* const result = truncateContent({ format, content, maxTokens, ... })
TruncateContent ==
    /\ pc = "start"
    /\ truncated' = truncateContent(request.format, request.content, request.prompt,
                                    request.extractionContext, request.maxTokens)
    /\ pc' = "done"
    /\ UNCHANGED <<request, converted, prompt, extractResult>>
    /\ UNCHANGED <<response, extracted, fixedData, outcome>>
    /\ UNCHANGED <<sanitizerVars, converterVars, browserVars, heapVars>>

NextTruncate == TruncateContent

SpecTruncate == InitTruncate /\ [][NextTruncate]_vars

\* The number of characters by which the prompt with the untruncated
\* content exceeds 4 * maxTokens, or 0 when it fits.
Excess(args) ==
    LET fullPromptLength == PromptLength(generateExtractionPrompt(
                                args.format, args.content, args.prompt,
                                args.extractionContext))
    IN  IF fullPromptLength > 4 * args.maxTokens
        THEN fullPromptLength - 4 * args.maxTokens ELSE 0

\* C28: truncateContent returns the prefix of content of length
\* max(0, content.length - excess), where excess is the number of characters
\* by which the prompt with the untruncated content exceeds 4 * maxTokens
\* (0 when it fits): the content unchanged when the prompt fits, the empty
\* string when the excess is at least the content length.
C28_PrefixOfExactLength ==
    pc = "done" =>
        LET length == Len(request.content) - Excess(request)
        IN  truncated = SubSeq(request.content, 1, IF length < 0 THEN 0 ELSE length)

(***************************************************************************)
(* loadPage with a string that is not a URL, and concurrent calls.         *)
(***************************************************************************)
\* The step in which loadPage is called with a string `new URL` rejects.
InvalidUrlCall ==
    /\ CallMade
    /\ NewCall.op = "loadPage"
    /\ ~IsValidUrl(loading'[Len(calls')].url)

\* C29: loadPage called with a string that is not a valid URL rejects with
\* 'Invalid URL provided' and leaves the Browser as it was: the provider is
\* not started, no page is created, and this.browser keeps its value, so a
\* Browser that was not started stays not started.
C29_InvalidUrlLeavesBrowserUnchanged ==
    [][InvalidUrlCall =>
          /\ NewCall.status = "rejected"
          /\ NewCall.error = InvalidUrl
          /\ settled' = Append(settled, Len(calls'))
          /\ providerCalls' = providerCalls
          /\ pages' = pages
          /\ browser' = browser
          /\ (~isStarted => browser' = Null)]_vars

\* loadPage with an invalid URL has rejected on a Browser that was never
\* started: no provider start, no page, this.browser still null.
C29_Witness ==
    /\ \E i \in DOMAIN loading :
           /\ ~IsValidUrl(loading[i].url)
           /\ calls[i].status = "rejected"
           /\ calls[i].error = InvalidUrl
    /\ providerCalls.start = 0
    /\ pages = <<>>
    /\ browser = Null

\* The calls that have invoked browserProvider.start() and await its result.
Launching ==
    {i \in DOMAIN calls :
        /\ calls[i].status = "pending"
        /\ \/ calls[i].op = "start"
           \/ calls[i].op = "loadPage" /\ loading[i].at = "starting"}

\* C30: under any interleaving of concurrent start() and loadPage() calls on
\* one Browser, browserProvider.start() is not invoked while an earlier
\* invocation is still starting or its browser is started: at most one
\* underlying browser is being launched or held at any time.
C30_AtMostOneLaunch ==
    Cardinality(Launching) + (IF isStarted THEN 1 ELSE 0) <= 1

====
